---- MODULE Spec2Model ----
(***************************************************************************)
(* A model of the Putnam boardingpass ETL (src/etl_script.py):             *)
(* extract_data, transform_data, calculate_metrics, load_data and          *)
(* run_etl_pipeline, with the pandas operations they call modelled by      *)
(* what they do to cells, columns and dtypes (pandas 1.x/2.x semantics),   *)
(* and the output directory modelled as a map from file name to lines.     *)
(***************************************************************************)
EXTENDS Integers, Sequences, FiniteSets, TLC

(***************************************************************************)
(* Text: Python str operations used by the code.                           *)
(***************************************************************************)
UpperAlpha == "ABCDEFGHIJKLMNOPQRSTUVWXYZ"
LowerAlpha == "abcdefghijklmnopqrstuvwxyz"
Digits == "0123456789"

CharAt(s, i) == SubSeq(s, i, i)

\* each upper-case letter's lower-case letter
UpperToLower ==
  [c \in {CharAt(UpperAlpha, i) : i \in 1..Len(UpperAlpha)} |->
     CharAt(LowerAlpha, CHOOSE i \in 1..Len(UpperAlpha) : CharAt(UpperAlpha, i) = c)]

\* str.lower() on one character
LowerChar(c) == IF c \in DOMAIN UpperToLower THEN UpperToLower[c] ELSE c

RECURSIVE Lower(_)
\* str.lower()
Lower(s) ==
  IF s = "" THEN "" ELSE LowerChar(CharAt(s, 1)) \o Lower(SubSeq(s, 2, Len(s)))

\* plain substring test
Find(s, pat) ==
  \E i \in 1..(Len(s) - Len(pat) + 1) : SubSeq(s, i, i + Len(pat) - 1) = pat

IsSpace(c) == c = " "

RECURSIVE LStrip(_)
LStrip(s) ==
  IF s # "" /\ IsSpace(CharAt(s, 1)) THEN LStrip(SubSeq(s, 2, Len(s))) ELSE s

RECURSIVE RStrip(_)
RStrip(s) ==
  IF s # "" /\ IsSpace(CharAt(s, Len(s))) THEN RStrip(SubSeq(s, 1, Len(s) - 1)) ELSE s

\* str.strip()
Strip(s) == RStrip(LStrip(s))

\* each digit character's value
DigitValues ==
  [c \in {CharAt(Digits, i) : i \in 1..Len(Digits)} |->
     (CHOOSE i \in 1..Len(Digits) : CharAt(Digits, i) = c) - 1]

DigitVal(c) == DigitValues[c]
IsDigit(c) == c \in DOMAIN DigitValues
IsDigits(s) == s # "" /\ \A i \in 1..Len(s) : IsDigit(CharAt(s, i))

RECURSIVE DigitsVal(_)
DigitsVal(s) ==
  IF s = "" THEN 0
  ELSE 10 * DigitsVal(SubSeq(s, 1, Len(s) - 1)) + DigitVal(CharAt(s, Len(s)))

RECURSIVE NatToStr(_)
NatToStr(n) ==
  IF n < 10 THEN CharAt(Digits, n + 1)
  ELSE NatToStr(n \div 10) \o CharAt(Digits, (n % 10) + 1)

\* str() of a Python int
IntToStr(n) == IF n < 0 THEN "-" \o NatToStr(0 - n) ELSE NatToStr(n)

(***************************************************************************)
(* Cells, columns and tables (pandas DataFrame).                           *)
(***************************************************************************)
Null == [t |-> "null"]
Num(n) == [t |-> "num", n |-> n]
Str(s) == [t |-> "str", s |-> s]
Date(d) == [t |-> "date", d |-> d]

IsNull(c) == c.t = "null"
IsNum(c) == c.t = "num"
IsStr(c) == c.t = "str"
IsDate(c) == c.t = "date"

SeqToSet(q) == {q[i] : i \in DOMAIN q}

\* the DataFrame pd.DataFrame() builds: no columns, no rows
EmptyDataFrame == [cols |-> <<>>, dtype |-> <<>>, rows |-> <<>>]

HasCol(df, col) == col \in SeqToSet(df.cols)
NRows(df) == Len(df.rows)
Column(df, col) == [i \in DOMAIN df.rows |-> df.rows[i][col]]

\* the dtype pandas infers for a column read from a sheet
InferDtype(cells) ==
  IF cells = {} THEN "object"
  ELSE IF \E c \in cells : IsStr(c) THEN "object"
  ELSE IF \A c \in cells : IsDate(c) \/ IsNull(c) THEN
         (IF \E c \in cells : IsDate(c) THEN "datetime64" ELSE "float64")
  ELSE IF \E c \in cells : IsDate(c) THEN "object"
  ELSE IF \E c \in cells : IsNull(c) THEN "float64"
  ELSE "int64"

\* the DataFrame holding the given rows under the given column order
MakeTable(cols, rows) ==
  [cols |-> cols,
   dtype |-> [c \in SeqToSet(cols) |-> InferDtype({rows[i][c] : i \in DOMAIN rows})],
   rows |-> rows]

RECURSIVE SelectRows(_, _)
\* the rows of a sequence that satisfy keep, in order (boolean-mask indexing)
SelectRows(rows, keep) ==
  IF rows = <<>> THEN <<>>
  ELSE LET rest == SelectRows(Tail(rows), [i \in 1..(Len(rows) - 1) |-> keep[i + 1]])
       IN IF keep[1] THEN <<Head(rows)>> \o rest ELSE rest

(***************************************************************************)
(* pandas conversions used by transform_data.                              *)
(***************************************************************************)
IsLeap(y) == (y % 4 = 0 /\ y % 100 # 0) \/ y % 400 = 0

DaysInMonth(y, m) ==
  IF m = 2 THEN (IF IsLeap(y) THEN 29 ELSE 28)
  ELSE IF m \in {4, 6, 9, 11} THEN 30 ELSE 31

\* days since 1970-01-01 of a civil date (proleptic Gregorian)
DaysFromCivil(y, m, d) ==
  LET yy == IF m <= 2 THEN y - 1 ELSE y
      era == yy \div 400
      yoe == yy - era * 400
      mp == IF m > 2 THEN m - 3 ELSE m + 9
      doy == (153 * mp + 2) \div 5 + d - 1
      doe == yoe * 365 + yoe \div 4 - yoe \div 100 + doy
  IN era * 146097 + doe - 719468

\* the civil date <<y, m, d>> of a day number (inverse of DaysFromCivil)
CivilFromDays(z) ==
  LET zz == z + 719468
      era == zz \div 146097
      doe == zz - era * 146097
      yoe == (doe - doe \div 1460 + doe \div 36524 - doe \div 146096) \div 365
      doy == doe - (365 * yoe + yoe \div 4 - yoe \div 100)
      mp == (5 * doy + 2) \div 153
      d == doy - (153 * mp + 2) \div 5 + 1
      m == IF mp < 10 THEN mp + 3 ELSE mp - 9
      y == yoe + era * 400
  IN <<IF m <= 2 THEN y + 1 ELSE y, m, d>>

Pad2(n) == IF n < 10 THEN "0" \o NatToStr(n) ELSE NatToStr(n)

\* str(date): YYYY-MM-DD
DateToStr(z) ==
  LET c == CivilFromDays(z)
  IN NatToStr(c[1]) \o "-" \o Pad2(c[2]) \o "-" \o Pad2(c[3])

\* whether text is a date pd.to_datetime parses (ISO YYYY-MM-DD)
IsIsoDate(s) ==
  /\ Len(s) = 10
  /\ CharAt(s, 5) = "-" /\ CharAt(s, 8) = "-"
  /\ IsDigits(SubSeq(s, 1, 4)) /\ IsDigits(SubSeq(s, 6, 7)) /\ IsDigits(SubSeq(s, 9, 10))
  /\ LET y == DigitsVal(SubSeq(s, 1, 4))
         m == DigitsVal(SubSeq(s, 6, 7))
         d == DigitsVal(SubSeq(s, 9, 10))
     IN m \in 1..12 /\ d >= 1 /\ d <= DaysInMonth(y, m)

ParseIsoDate(s) ==
  DaysFromCivil(DigitsVal(SubSeq(s, 1, 4)), DigitsVal(SubSeq(s, 6, 7)),
                DigitsVal(SubSeq(s, 9, 10)))

\* pd.to_datetime(cell, errors='coerce'): what cannot be parsed becomes NaT
to_datetime(c) ==
  IF IsDate(c) THEN c
  ELSE IF IsNum(c) THEN Date(0)
  ELSE IF IsStr(c) /\ IsIsoDate(Strip(c.s)) THEN Date(ParseIsoDate(Strip(c.s)))
  ELSE Null

\* whether text is a number pd.to_numeric parses (an optionally signed integer)
IsNumeric(s) ==
  LET x == Strip(s)
  IN IsDigits(x) \/ (Len(x) > 1 /\ CharAt(x, 1) = "-" /\ IsDigits(SubSeq(x, 2, Len(x))))

ParseNumeric(s) ==
  LET x == Strip(s)
  IN IF CharAt(x, 1) = "-" THEN 0 - DigitsVal(SubSeq(x, 2, Len(x))) ELSE DigitsVal(x)

\* mutant of to_numeric: text is never read as a number
to_numeric_numbers_only(c) == IF IsNum(c) THEN c ELSE Null

\* pd.to_numeric(cell, errors='coerce'): what is not a number becomes NaN
to_numeric(c) ==
  IF IsNum(c) THEN c
  ELSE IF IsStr(c) /\ IsNumeric(c.s) THEN Num(ParseNumeric(c.s))
  ELSE Null

\* Series.fillna(value) on one cell
fillna(c, value) == IF IsNull(c) THEN value ELSE c

\* Series.astype(str) on one cell of a column of the given dtype
astype_str(c, dtype) ==
  IF IsStr(c) THEN c.s
  ELSE IF IsNull(c) THEN (IF dtype = "datetime64" THEN "NaT" ELSE "nan")
  ELSE IF IsNum(c) THEN
         (IF dtype = "float64" THEN IntToStr(c.n) \o ".0" ELSE IntToStr(c.n))
  ELSE DateToStr(c.d) \o " 00:00:00"

RECURSIVE SetCells(_, _, _)
\* the rows with the cells of one column replaced, row by row
SetCells(rows, col, newcells) ==
  IF rows = <<>> THEN <<>>
  ELSE <<[Head(rows) EXCEPT ![col] = Head(newcells)]>> \o SetCells(Tail(rows), col, Tail(newcells))

\* df[col] = newcells, the column taking the given dtype
SetColumn(df, col, newcells, newdtype) ==
  [cols |-> df.cols,
   dtype |-> [df.dtype EXCEPT ![col] = newdtype],
   rows |-> SetCells(df.rows, col, newcells)]

NumericDtype(cells) ==
  IF \E i \in DOMAIN cells : IsNull(cells[i]) THEN "float64" ELSE "int64"

(***************************************************************************)
(* transform_data (src/etl_script.py 43-119).                              *)
(***************************************************************************)
required_cols ==
  <<"Fund Name", "Plan Name", "Request Status", "Status Detail", "Cusip",
    "Advisor Firm Name", "Recordkeeper Name", "NSCC Firm Name",
    "Estimated Funding Date", "Estimated Funding Amount", "Mapping from Mutual Fund?">>

date_cols == <<"Request Date", "Estimated Funding Date", "Report As of Date">>

text_cols ==
  <<"Request Status", "Status Detail", "Advisor Firm Name", "Recordkeeper Name",
    "NSCC Firm Name">>

\* line 61: the expected columns the table lacks
missing_cols(df) == SelectRows(required_cols, [i \in DOMAIN required_cols |-> ~HasCol(df, required_cols[i])])

\* mutant of str_contains: the match is case-sensitive (case=False forgotten)
str_contains_case_sensitive(c, pat) == IsStr(c) /\ Find(c.s, pat)

\* Series.str.contains(pat, case=False, na=False) on one cell
str_contains(c, pat) == IsStr(c) /\ Find(Lower(c.s), Lower(pat))

\* line 66: df[df['Fund Name'].str.contains('Putnam', case=False, na=False)]
filter_putnam(df) ==
  [df EXCEPT !.rows =
     SelectRows(df.rows, [i \in DOMAIN df.rows |-> str_contains(df.rows[i]["Fund Name"], "Putnam")])]

\* line 83, for one column
clean_date_col(df, col) ==
  IF HasCol(df, col)
  THEN SetColumn(df, col, [i \in DOMAIN df.rows |-> to_datetime(df.rows[i][col])], "datetime64")
  ELSE df

RECURSIVE clean_dates(_, _)
\* lines 79-83
clean_dates(df, cols) ==
  IF cols = <<>> THEN df ELSE clean_dates(clean_date_col(df, Head(cols)), Tail(cols))

\* lines 86-88
clean_amount(df) ==
  IF HasCol(df, "Estimated Funding Amount")
  THEN LET parsed == [i \in DOMAIN df.rows |-> to_numeric(df.rows[i]["Estimated Funding Amount"])]
       IN SetColumn(df, "Estimated Funding Amount",
                    [i \in DOMAIN df.rows |-> fillna(parsed[i], Num(0))],
                    NumericDtype(parsed))
  ELSE df

\* mutant of normalize_mapping: the text is compared without .lower()
normalize_mapping_case_sensitive(x) ==
  IF x \in {"yes", "y", "true", "1"} THEN "Yes"
  ELSE IF x \in {"no", "n", "false", "0"} THEN "No"
  ELSE x

\* line 95: the lambda applied to each (stripped) mapping text
normalize_mapping(x) ==
  IF Lower(x) \in {"yes", "y", "true", "1"} THEN "Yes"
  ELSE IF Lower(x) \in {"no", "n", "false", "0"} THEN "No"
  ELSE x

\* lines 93-96 on one cell of a column of the given dtype
clean_mapping_cell(c, dtype) == Str(normalize_mapping(Strip(astype_str(c, dtype))))

\* lines 91-96
clean_mapping(df) ==
  IF HasCol(df, "Mapping from Mutual Fund?")
  THEN SetColumn(df, "Mapping from Mutual Fund?",
                 [i \in DOMAIN df.rows |->
                    clean_mapping_cell(df.rows[i]["Mapping from Mutual Fund?"],
                                       df.dtype["Mapping from Mutual Fund?"])],
                 "object")
  ELSE df

\* lines 101-105, for one column
fill_missing_col(df, col) ==
  IF df.dtype[col] \in {"float64", "int64"}
  THEN SetColumn(df, col, [i \in DOMAIN df.rows |-> fillna(df.rows[i][col], Num(0))], df.dtype[col])
  ELSE IF df.dtype[col] = "object"
  THEN SetColumn(df, col, [i \in DOMAIN df.rows |-> fillna(df.rows[i][col], Str(""))], "object")
  ELSE df

RECURSIVE fill_missing(_, _)
\* lines 99-105
fill_missing(df, cols) ==
  IF cols = <<>> THEN df ELSE fill_missing(fill_missing_col(df, Head(cols)), Tail(cols))

\* line 113, for one column
strip_text_col(df, col) ==
  IF HasCol(df, col)
  THEN SetColumn(df, col,
                 [i \in DOMAIN df.rows |-> Str(Strip(astype_str(df.rows[i][col], df.dtype[col])))],
                 "object")
  ELSE df

RECURSIVE strip_text(_, _)
\* lines 111-113
strip_text(df, cols) ==
  IF cols = <<>> THEN df ELSE strip_text(strip_text_col(df, Head(cols)), Tail(cols))

Returned(v) == [raised |-> FALSE, value |-> v]
Raised(kind) == [raised |-> TRUE, error |-> kind]

\* transform_data(df): the cleaned table, the empty DataFrame, or an exception
transform_data(df) ==
  IF ~HasCol(df, "Fund Name") THEN Raised("KeyError")
  ELSE IF df.dtype["Fund Name"] # "object" THEN Raised("AttributeError")
  ELSE LET df_ac == filter_putnam(df)
       IN IF NRows(df_ac) = 0 THEN Returned(EmptyDataFrame)
          ELSE Returned(
                 strip_text(
                   fill_missing(
                     clean_mapping(clean_amount(clean_dates(df_ac, date_cols))),
                     df_ac.cols),
                   text_cols))

(***************************************************************************)
(* The dashboard's load_and_process_data (src/bp_analysis.py 55-96), on    *)
(* the table pd.read_excel(file) gave it.                                  *)
(***************************************************************************)
\* line 71
date_columns == <<"Request Date", "Estimated Funding Date", "Report As of Date">>

None == [none |-> TRUE]

\* what load_and_process_data hands back, and the st.error messages it showed
Shown(value, errors) == [value |-> value, errors |-> errors]

\* lines 70-91: dates, amount, mapping and missing values; no text field is trimmed
dashboard_clean(ac_plans) ==
  fill_missing(
    clean_mapping(clean_amount(clean_dates(ac_plans, date_columns))),
    ac_plans.cols)

\* load_and_process_data: the cleaned table, or None with an error shown
load_and_process_data(df) ==
  IF ~HasCol(df, "Fund Name")
  THEN Shown(None, <<"Error processing file: KeyError">>)
  ELSE IF df.dtype["Fund Name"] # "object"
  THEN Shown(None, <<"Error processing file: AttributeError">>)
  ELSE LET ac_plans == filter_putnam(df)
       IN IF NRows(ac_plans) = 0
          THEN Shown(None, <<"No relevant plans found in the dataset.">>)
          ELSE Shown(dashboard_clean(ac_plans), <<>>)

(***************************************************************************)
(* extract_data, calculate_metrics and the serialisations load_data uses.  *)
(***************************************************************************)
Row(fund, plan, status, detail) ==
  [c \in {"Fund Name", "Plan Name", "Request Status", "Status Detail"} |->
     IF c = "Fund Name" THEN fund ELSE IF c = "Plan Name" THEN plan
     ELSE IF c = "Request Status" THEN status ELSE detail]

PipelineCols == <<"Fund Name", "Plan Name", "Request Status", "Status Detail">>

\* the spreadsheets a run may be pointed at: what pd.read_excel finds there
Workbooks ==
  [path \in {"corrupt.xlsx", "empty.xlsx", "other.xlsx", "nofund.xlsx", "noplan.xlsx",
             "one.xlsx", "two.xlsx"} |->
     CASE path = "corrupt.xlsx" -> [readable |-> FALSE]
       [] path = "empty.xlsx" -> [readable |-> TRUE, sheet |-> MakeTable(PipelineCols, <<>>)]
       [] path = "other.xlsx" ->
            [readable |-> TRUE,
             sheet |-> MakeTable(PipelineCols,
                         <<Row(Str("Other Fund"), Str("P9"), Str("Open"), Str("Ready to Trade"))>>)]
       [] path = "nofund.xlsx" ->
            [readable |-> TRUE,
             sheet |-> MakeTable(<<"Plan Name">>, <<[c \in {"Plan Name"} |-> Str("P1")]>>)]
       [] path = "noplan.xlsx" ->
            [readable |-> TRUE,
             sheet |-> MakeTable(<<"Fund Name">>, <<[c \in {"Fund Name"} |-> Str("Putnam Growth")]>>)]
       [] path = "one.xlsx" ->
            [readable |-> TRUE,
             sheet |-> MakeTable(PipelineCols,
                         <<Row(Str("Putnam Growth"), Str("P1"), Str("Open"), Str("Awaiting Signature")),
                           Row(Str("Other Fund"), Str("P2"), Str("Open"), Str("Ready to Trade"))>>)]
       [] OTHER ->
            [readable |-> TRUE,
             sheet |-> MakeTable(PipelineCols,
                         <<Row(Str("PUTNAM Income"), Str("P3"), Str("Closed"), Str(" ready to trade ")),
                           Row(Str("the putnam fund"), Null, Str("Open"), Null)>>)]]

InputFiles == DOMAIN Workbooks

\* extract_data(file_path): lines 33-41
extract_data(file_path) ==
  IF Workbooks[file_path].readable THEN Returned(Workbooks[file_path].sheet)
  ELSE Raised("ExcelReadError")

\* a sequence given as a function, with its elements computed once
ToSeq(f) == SubSeq(f, 1, Len(f))

RECURSIVE Distinct(_)
\* the values of a column without its nulls, each once, in first-encountered order
Distinct(cells) ==
  IF cells = <<>> THEN <<>>
  ELSE LET rest == Distinct(SubSeq(cells, 1, Len(cells) - 1))
           c == cells[Len(cells)]
       IN IF IsNull(c) \/ c \in SeqToSet(rest) THEN rest ELSE Append(rest, c)

CountOf(cells, v) == Cardinality({i \in DOMAIN cells : cells[i] = v})

RECURSIVE SortDescending(_)
\* sort_values(ascending=False) of counted entries; equal counts keep their order
SortDescending(entries) ==
  IF entries = <<>> THEN <<>>
  ELSE LET rest == SortDescending(SubSeq(entries, 1, Len(entries) - 1))
           e == entries[Len(entries)]
           before == SelectSeq(rest, LAMBDA x : x.n >= e.n)
           after == SelectSeq(rest, LAMBDA x : x.n < e.n)
       IN before \o <<e>> \o after

\* Series.value_counts(): the count of each non-null value, largest first
value_counts(cells) ==
  LET keys == Distinct(cells)
  IN SortDescending(ToSeq([k \in DOMAIN keys |-> [key |-> keys[k], n |-> CountOf(cells, keys[k])]]))

\* mutant of round1: the digits after the first decimal are cut off
round1_truncating(num, den) == (1000 * num) \div den

\* round(100 * num / den, 1) in tenths, a half going to the even tenth
round1(num, den) ==
  LET q == (1000 * num) \div den
      r == (1000 * num) % den
  IN IF 2 * r < den THEN q
     ELSE IF 2 * r > den THEN q + 1
     ELSE IF q % 2 = 0 THEN q ELSE q + 1

\* (value_counts(normalize=True) * 100).round(1), in tenths
value_percentages(cells) ==
  LET counts == value_counts(cells)
      total == Cardinality({i \in DOMAIN cells : ~IsNull(cells[i])})
  IN ToSeq([k \in DOMAIN counts |-> [key |-> counts[k].key, n |-> round1(counts[k].n, total)]])

\* pd.Timestamp.now().normalize(), in days; the clock starts on 2026-11-05
SecondsPerDay == 86400
Today(t) == DaysFromCivil(2026, 11, 5) + (t \div SecondsPerDay)

\* mutant of FutureFunding: a funding date of today is not counted
FutureFunding_after_today(df, today) ==
  SelectSeq(df.rows, LAMBDA row : IsDate(row["Estimated Funding Date"])
                                   /\ row["Estimated Funding Date"].d > today)

\* line 159: the rows with a funding date that is not null and not before today
FutureFunding(df, today) ==
  SelectSeq(df.rows, LAMBDA row : IsDate(row["Estimated Funding Date"])
                                   /\ row["Estimated Funding Date"].d >= today)

\* line 166: those of the given rows dated before today + 30 days
Upcoming30Days(rows, today) ==
  SelectSeq(rows, LAMBDA row : row["Estimated Funding Date"].d < today + 30)

RECURSIVE SortedDays(_)
\* the days of a set, earliest first
SortedDays(days) ==
  IF days = {} THEN <<>>
  ELSE LET first == CHOOSE d \in days : \A e \in days : d <= e
       IN <<first>> \o SortedDays(days \ {first})

\* mutant of funding_by_date: each date is entered once, its rows not counted
funding_by_date_uncounted(rows) ==
  LET days == SortedDays({rows[i]["Estimated Funding Date"].d : i \in DOMAIN rows})
  IN ToSeq([k \in DOMAIN days |-> [key |-> DateToStr(days[k]), n |-> 1]])

\* lines 163 and 173: groupby(date).size() of the given rows as {str(date): count}
funding_by_date(rows) ==
  LET days == SortedDays({rows[i]["Estimated Funding Date"].d : i \in DOMAIN rows})
  IN ToSeq([k \in DOMAIN days |->
              [key |-> DateToStr(days[k]),
               n |-> Cardinality({i \in DOMAIN rows :
                                    rows[i]["Estimated Funding Date"].d = days[k]})]])

RECURSIVE SumAmounts(_)
\* Series.sum() of the 'Estimated Funding Amount' of the given rows
SumAmounts(rows) ==
  IF rows = <<>> THEN 0
  ELSE (IF IsNum(Head(rows)["Estimated Funding Amount"])
        THEN Head(rows)["Estimated Funding Amount"].n ELSE 0) + SumAmounts(Tail(rows))

\* lines 156-182: metrics['upcoming_funding'], the table having the date column
upcoming_funding(df, today) ==
  LET future_funding == FutureFunding(df, today)
      upcoming_30days == Upcoming30Days(future_funding, today)
  IN IF future_funding # <<>>
     THEN [total_count |-> Len(future_funding),
           next_30days_count |-> Len(upcoming_30days),
           total_amount |-> SumAmounts(future_funding),
           next_30days_amount |-> SumAmounts(upcoming_30days),
           by_date |-> funding_by_date(future_funding)]
     ELSE [total_count |-> 0, next_30days_count |-> 0, total_amount |-> 0,
           next_30days_amount |-> 0, by_date |-> <<>>]

\* lines 186-192: metrics['mapping_from_mutual_fund']
mapping_from_mutual_fund(df) ==
  [counts |-> value_counts(Column(df, "Mapping from Mutual Fund?")),
   percentages |-> value_percentages(Column(df, "Mapping from Mutual Fund?"))]

\* line 195
dimensions == <<"Advisor Firm Name", "Recordkeeper Name", "NSCC Firm Name">>

\* the number of dimension values that are retained
TopN == 10

RECURSIVE SumCounts(_)
SumCounts(entries) == IF entries = <<>> THEN 0 ELSE Head(entries).n + SumCounts(Tail(entries))

\* at most the first n of a sequence
Take(q, n) == SubSeq(q, 1, IF Len(q) < n THEN Len(q) ELSE n)

\* mutant of dimension_breakdown: the values are not ordered by their totals before
\* the first TopN are taken
dimension_breakdown_unsorted(df, dim) ==
  LET values == Distinct(Column(df, dim))
      statuses == Distinct(Column(df, "Request Status"))
      counts(v) == ToSeq([k \in DOMAIN statuses |->
                            [key |-> statuses[k],
                             n |-> Cardinality({i \in DOMAIN df.rows :
                                                  /\ df.rows[i][dim] = v
                                                  /\ df.rows[i]["Request Status"] = statuses[k]})]])
      entries == ToSeq([k \in DOMAIN values |->
                          [key |-> values[k], counts |-> counts(values[k]),
                           n |-> SumCounts(counts(values[k]))]])
  IN Take(entries, TopN)

\* the breakdown of one dimension: for each of its values the rows per status and
\* their total, the TopN values with the largest totals, equal totals in
\* first-encountered order
dimension_breakdown(df, dim) ==
  LET values == Distinct(Column(df, dim))
      statuses == Distinct(Column(df, "Request Status"))
      counts(v) == ToSeq([k \in DOMAIN statuses |->
                            [key |-> statuses[k],
                             n |-> Cardinality({i \in DOMAIN df.rows :
                                                  /\ df.rows[i][dim] = v
                                                  /\ df.rows[i]["Request Status"] = statuses[k]})]])
      entries == ToSeq([k \in DOMAIN values |->
                          [key |-> values[k], counts |-> counts(values[k]),
                           n |-> SumCounts(counts(values[k]))]])
  IN Take(SortDescending(entries), TopN)

\* metrics['by_dimension']: the breakdown of each dimension the table has
by_dimension(df) ==
  [dim \in {d \in SeqToSet(dimensions) : HasCol(df, d)} |-> dimension_breakdown(df, dim)]

\* lines 149-150: the rows whose status detail holds 'Ready to Trade'
completed_rows(df) ==
  SelectSeq(df.rows, LAMBDA row : str_contains(row["Status Detail"], "Ready to Trade"))

\* line 151
completion_rate(df) ==
  IF NRows(df) > 0 THEN round1(Len(completed_rows(df)), NRows(df)) ELSE 0

\* mutant of metrics_keys: the mapping block is nested in the funding-date block
metrics_keys_mapping_nested(df) ==
  {"total_plans", "total_requests", "status_counts", "status_percentages",
   "status_detail_counts", "status_detail_percentages", "completed_count",
   "completion_rate", "by_dimension"}
  \cup (IF HasCol(df, "Estimated Funding Date") THEN {"upcoming_funding"} ELSE {})
  \cup (IF HasCol(df, "Estimated Funding Date") /\ HasCol(df, "Mapping from Mutual Fund?")
        THEN {"mapping_from_mutual_fund"} ELSE {})

\* the keys of the bundle calculate_metrics builds from the given table
metrics_keys(df) ==
  {"total_plans", "total_requests", "status_counts", "status_percentages",
   "status_detail_counts", "status_detail_percentages", "completed_count",
   "completion_rate", "by_dimension"}
  \cup (IF HasCol(df, "Estimated Funding Date") THEN {"upcoming_funding"} ELSE {})
  \cup (IF HasCol(df, "Mapping from Mutual Fund?") THEN {"mapping_from_mutual_fund"} ELSE {})

\* lines 134-198: the bundle, percentages and rates in tenths
metrics_bundle(df, today) ==
  [k \in metrics_keys(df) |->
     CASE k = "total_plans" -> Cardinality(SeqToSet(Column(df, "Plan Name")))
       [] k = "total_requests" -> NRows(df)
       [] k = "status_counts" -> value_counts(Column(df, "Request Status"))
       [] k = "status_percentages" -> value_percentages(Column(df, "Request Status"))
       [] k = "status_detail_counts" -> value_counts(Column(df, "Status Detail"))
       [] k = "status_detail_percentages" -> value_percentages(Column(df, "Status Detail"))
       [] k = "completed_count" -> Len(completed_rows(df))
       [] k = "completion_rate" -> completion_rate(df)
       [] k = "upcoming_funding" -> upcoming_funding(df, today)
       [] k = "mapping_from_mutual_fund" -> mapping_from_mutual_fund(df)
       [] OTHER -> by_dimension(df)]

\* calculate_metrics(df), called on the day today: lines 133-202
calculate_metrics(df, today) ==
  IF ~HasCol(df, "Plan Name") \/ ~HasCol(df, "Request Status") \/ ~HasCol(df, "Status Detail")
  THEN Raised("KeyError")
  ELSE IF df.dtype["Status Detail"] # "object" THEN Raised("AttributeError")
  ELSE IF HasCol(df, "Estimated Funding Date") /\ df.dtype["Estimated Funding Date"] # "datetime64"
  THEN Raised("TypeError")
  ELSE IF /\ HasCol(df, "Estimated Funding Date")
          /\ FutureFunding(df, today) # <<>>
          /\ ~HasCol(df, "Estimated Funding Amount")
  THEN Raised("KeyError")
  ELSE Returned(metrics_bundle(df, today))

RECURSIVE Join(_, _)
\* sep.join(parts)
Join(parts, sep) ==
  IF parts = <<>> THEN ""
  ELSE IF Len(parts) = 1 THEN parts[1]
  ELSE parts[1] \o sep \o Join(Tail(parts), sep)

\* one cell as DataFrame.to_csv writes it
csv_cell(c, dtype) ==
  IF IsNull(c) THEN ""
  ELSE IF IsStr(c) THEN c.s
  ELSE IF IsNum(c) THEN (IF dtype = "float64" THEN IntToStr(c.n) \o ".0" ELSE IntToStr(c.n))
  ELSE DateToStr(c.d)

\* df.to_csv(path, index=False): the header line, then a line per row
to_csv(df) ==
  <<Join(df.cols, ",")>> \o
  [i \in DOMAIN df.rows |->
     Join([k \in DOMAIN df.cols |-> csv_cell(df.rows[i][df.cols[k]], df.dtype[df.cols[k]])], ",")]

\* a dictionary key or string as json.dump writes it
Quote(text) == "\"" \o text \o "\""

Spaces(n) == SubSeq("          ", 1, n)

\* a count or amount, and a percentage or rate held in tenths, as json.dump writes them
TenthsText(t) == IntToStr(t \div 10) \o "." \o IntToStr(t % 10)
NumberText(n, tenths) == IF tenths THEN TenthsText(n) ELSE IntToStr(n)

\* the text of a value that is a dictionary key
key_text(c) == IF IsStr(c) THEN c.s ELSE IF IsNum(c) THEN IntToStr(c.n) ELSE c

\* a block of lines with a comma after it
WithComma(block) == SubSeq(block, 1, Len(block) - 1) \o <<block[Len(block)] \o ",">>

RECURSIVE JoinBlocks(_)
\* the blocks of a dictionary's entries, a comma after each but the last
JoinBlocks(blocks) ==
  IF Len(blocks) = 1 THEN blocks[1]
  ELSE WithComma(blocks[1]) \o JoinBlocks(Tail(blocks))

\* "name": text
Scalar(indent, name, text) == <<Spaces(indent) \o Quote(name) \o ": " \o text>>

\* "name": { ... }, the entries two columns further in
Dict(indent, name, blocks) ==
  IF blocks = <<>> THEN Scalar(indent, name, "{}")
  ELSE <<Spaces(indent) \o Quote(name) \o ": {">> \o JoinBlocks(blocks)
       \o <<Spaces(indent) \o "}">>

\* a dictionary of counts (or of percentages in tenths)
Counts(indent, name, entries, tenths) ==
  Dict(indent, name,
       ToSeq([k \in DOMAIN entries |->
                Scalar(indent + 2, key_text(entries[k].key), NumberText(entries[k].n, tenths))]))

\* the breakdown of one dimension: each value's counts per status and its total
Breakdown(indent, name, entries) ==
  Dict(indent, name,
       ToSeq([k \in DOMAIN entries |->
                Dict(indent + 2, key_text(entries[k].key),
                     ToSeq([j \in 1..(Len(entries[k].counts) + 1) |->
                              IF j <= Len(entries[k].counts)
                              THEN Scalar(indent + 4, key_text(entries[k].counts[j].key),
                                          IntToStr(entries[k].counts[j].n))
                              ELSE Scalar(indent + 4, "total", IntToStr(entries[k].n))]))]))

\* the lines of one top-level key of the bundle
json_entry(m, k) ==
  CASE k \in {"total_plans", "total_requests", "completed_count"} -> Scalar(2, k, IntToStr(m[k]))
    [] k = "completion_rate" ->
         Scalar(2, k, IF m.total_requests > 0 THEN TenthsText(m[k]) ELSE "0")
    [] k \in {"status_counts", "status_detail_counts"} -> Counts(2, k, m[k], FALSE)
    [] k \in {"status_percentages", "status_detail_percentages"} -> Counts(2, k, m[k], TRUE)
    [] k = "upcoming_funding" ->
         Dict(2, k, <<Scalar(4, "total_count", IntToStr(m[k].total_count)),
                      Scalar(4, "next_30days_count", IntToStr(m[k].next_30days_count)),
                      Scalar(4, "total_amount", IntToStr(m[k].total_amount)),
                      Scalar(4, "next_30days_amount", IntToStr(m[k].next_30days_amount)),
                      Counts(4, "by_date", m[k].by_date, FALSE)>>)
    [] k = "mapping_from_mutual_fund" ->
         Dict(2, k, <<Counts(4, "counts", m[k].counts, FALSE),
                      Counts(4, "percentages", m[k].percentages, TRUE)>>)
    [] OTHER ->
         LET dims == SelectSeq(dimensions, LAMBDA d : d \in DOMAIN m[k])
         IN Dict(2, k, ToSeq([j \in DOMAIN dims |-> Breakdown(4, dims[j], m[k][dims[j]])]))

\* the bundle's keys in the order calculate_metrics sets them
KeyOrder ==
  <<"total_plans", "total_requests", "status_counts", "status_percentages",
    "status_detail_counts", "status_detail_percentages", "completed_count",
    "completion_rate", "upcoming_funding", "mapping_from_mutual_fund", "by_dimension">>

\* json.dump(metrics, f, indent=2): the lines written
json_dump(m) ==
  LET keys == SelectSeq(KeyOrder, LAMBDA k : k \in DOMAIN m)
  IN <<"{">> \o JoinBlocks(ToSeq([j \in DOMAIN keys |-> json_entry(m, keys[j])])) \o <<"}">>

(***************************************************************************)
(* State.                                                                  *)
(***************************************************************************)
VARIABLES
  call_df,           \* the argument of a direct call of transform_data
  call_ret,          \* what that call returned or raised
  pc,                \* where each run of run_etl_pipeline stands
  input_file,        \* run_etl_pipeline's input_file
  raw_data,          \* line 269
  transformed_data,  \* line 272
  metrics,           \* line 279
  timestamp,         \* load_data's timestamp, line 220 ("" before it is taken)
  step,              \* which of load_data's four writes a run is at
  result,            \* what run_etl_pipeline returned or raised
  files,             \* the output directory: file name -> lines
  now,               \* the wall clock, in seconds
  stages,            \* history: the stages each run has started
  completed,         \* history: the stages each run has completed
  touched,           \* history: the files each run has opened for writing
  snapshot,          \* history: the output directory when a run entered load_data
  predecessors,      \* history: the runs that had returned their paths when a run entered load_data
  disturbed,         \* history: another run changed one of a run's four files since it entered load_data
  last_writer,       \* history: file name -> the run whose write to it completed last
  overlapped,        \* history: files opened by one run while another had them open
  error_log,         \* the logger.error records each run has emitted, in order
  argv,              \* the command line main was started with (NoValue: not started by main)
  exit_status,       \* the status main's process ended with (NoValue: still running)
  stdout,            \* the lines main printed
  stderr,            \* the lines argparse wrote to the error stream
  dashboard_ret      \* what the dashboard's load_and_process_data returned and showed

vars ==
  <<call_df, call_ret, pc, input_file, raw_data, transformed_data, metrics, timestamp,
    step, result, files, now, stages, completed, touched, snapshot, predecessors,
    disturbed, last_writer, overlapped, error_log, argv, exit_status, stdout, stderr,
    dashboard_ret>>

\* what only main (lines 291-312) changes
main_vars == <<argv, exit_status, stdout, stderr>>

pipeline_vars ==
  <<pc, input_file, raw_data, transformed_data, metrics, timestamp, step, result, files,
    now, stages, completed, touched, snapshot, predecessors, disturbed, last_writer,
    overlapped, main_vars>>

\* the runs that may overlap on one output directory
Runs == {1, 2}

\* the seconds the clock may advance during the runs
MaxClock == 1

\* the most rows of a table handed to transform_data directly
MaxRows == 2

NoValue == [unset |-> TRUE]
NotCalled == [pending |-> TRUE]

StageOrder == <<"Extract", "Transform", "Calculate", "Load">>

\* run_etl_pipeline called directly, not through main
NotStartedByMain ==
  /\ argv = [r \in Runs |-> NoValue]
  /\ exit_status = [r \in Runs |-> NoValue]
  /\ stdout = [r \in Runs |-> <<>>]
  /\ stderr = [r \in Runs |-> <<>>]

\* one logger.error record: its level, its message, and the exception whose str() it carries
ErrorRecord(message, kind) == [level |-> "ERROR", message |-> message, error |-> kind]

\* lines 39-41, 117-119, 200-202, 250-252: the stage's handler logs, then re-raises
stage_error(message, res) ==
  IF res.raised THEN <<ErrorRecord(message, res.error)>> ELSE <<>>

\* mutant of pipeline_error: run_etl_pipeline re-raises without logging
pipeline_error_silent(res) == <<>>

\* lines 287-289: run_etl_pipeline's handler logs, then re-raises
pipeline_error(res) ==
  IF res.raised THEN <<ErrorRecord("ETL pipeline failed", res.error)>> ELSE <<>>

\* line 75: transform_data logs that no plan was kept, and returns the empty table
no_plans_error(res) ==
  IF ~res.raised /\ NRows(res.value) = 0
  THEN <<ErrorRecord("No relevant plans found in the dataset", None)>> ELSE <<>>

\* logger.error(...) by run r: the records a handler appends to the log
LogError(r, records) == [error_log EXCEPT ![r] = @ \o records]

(***************************************************************************)
(* load_data's file names and contents (lines 220-239).                    *)
(***************************************************************************)
\* datetime.now().strftime('%Y%m%d_%H%M%S'), the clock counting seconds of one minute
strftime(t) == "20261105_1200" \o Pad2(t)

csv_path(ts) == "putnam_data_" \o ts \o ".csv"
metrics_path(ts) == "putnam_metrics_" \o ts \o ".json"
latest_csv_path == "putnam_data_latest.csv"
latest_metrics_path == "putnam_metrics_latest.json"

\* mutant of write_order: the two latest paths are taken for one another
write_order_latest_swapped(ts) ==
  <<csv_path(ts), metrics_path(ts), latest_metrics_path, latest_csv_path>>

\* the four files load_data writes, in the order it writes them
write_order(ts) == <<csv_path(ts), metrics_path(ts), latest_csv_path, latest_metrics_path>>

\* the cleaned tables and the bundles a run can hand to load_data
PipelineTables ==
  {transform_data(Workbooks[p].sheet).value :
     p \in {q \in InputFiles : /\ Workbooks[q].readable
                               /\ ~transform_data(Workbooks[q].sheet).raised}}

PipelineBundles ==
  {calculate_metrics(x[1], Today(x[2])).value :
     x \in {y \in PipelineTables \X (0..MaxClock) : ~calculate_metrics(y[1], Today(y[2])).raised}}

\* json.dump and to_csv of each of them, computed once
json_dumps == [m \in PipelineBundles |-> json_dump(m)]
to_csvs == [df \in PipelineTables |-> to_csv(df)]

\* what load_data writes to each of them
write_content(df, m) == <<to_csvs[df], json_dumps[m], to_csvs[df], json_dumps[m]>>

\* lines 243-248
output_paths(ts) ==
  [processed_data_path |-> csv_path(ts), metrics_path |-> metrics_path(ts),
   latest_data_path |-> latest_csv_path, latest_metrics_path |-> latest_metrics_path]

\* mutant of Truncate: the file is opened without being emptied (mode 'r+' for 'w')
Truncate_keep(fs, name) ==
  [f \in DOMAIN fs \cup {name} |-> IF f \in DOMAIN fs THEN fs[f] ELSE <<>>]

\* open(name, 'w'): the file is created, or emptied
Truncate(fs, name) == [f \in DOMAIN fs \cup {name} |-> IF f = name THEN <<>> ELSE fs[f]]

\* a write of lines at offset 0 through a handle opened earlier
Overlay(old, lines) == lines \o SubSeq(old, Len(lines) + 1, Len(old))

WriteAt(fs, name, lines) ==
  [f \in DOMAIN fs \cup {name} |->
     IF f = name THEN Overlay(IF name \in DOMAIN fs THEN fs[name] ELSE <<>>, lines) ELSE fs[f]]

\* the run has entered load_data and taken its timestamp
EnteredLoad(r) == timestamp[r] # ""
CurrentFile(r) == write_order(timestamp[r])[step[r]]

\* history: the runs past line 220 one of whose four files another run's step changes
Disturb(r, name) ==
  [q \in Runs |->
     IF q # r /\ EnteredLoad(q) /\ name \in SeqToSet(write_order(timestamp[q])) THEN TRUE
     ELSE disturbed[q]]

(***************************************************************************)
(* run_etl_pipeline (lines 254-289), one action per stage, and load_data   *)
(* (lines 204-252), one action per file operation.  Each run starts with   *)
(* the input_file it was called with.                                      *)
(***************************************************************************)
Init ==
  /\ call_df = EmptyDataFrame
  /\ call_ret = NotCalled
  /\ pc = [r \in Runs |-> "extract"]
  /\ input_file \in [Runs -> InputFiles]
  /\ raw_data = [r \in Runs |-> NoValue]
  /\ transformed_data = [r \in Runs |-> NoValue]
  /\ metrics = [r \in Runs |-> NoValue]
  /\ timestamp = [r \in Runs |-> ""]
  /\ step = [r \in Runs |-> 0]
  /\ result = [r \in Runs |-> NoValue]
  /\ files = <<>>
  /\ now = 0
  /\ stages = [r \in Runs |-> <<>>]
  /\ completed = [r \in Runs |-> <<>>]
  /\ touched = [r \in Runs |-> <<>>]
  /\ snapshot = [r \in Runs |-> NoValue]
  /\ predecessors = [r \in Runs |-> {}]
  /\ disturbed = [r \in Runs |-> FALSE]
  /\ last_writer = <<>>
  /\ overlapped = {}
  /\ error_log = [r \in Runs |-> <<>>]
  /\ NotStartedByMain
  /\ dashboard_ret = NotCalled

\* mutant of Extract: a failed read is tried again instead of raised
Extract_retry(r) ==
  /\ pc[r] = "extract"
  /\ Len(stages[r]) < Len(StageOrder)
  /\ stages' = [stages EXCEPT ![r] = Append(@, "Extract")]
  /\ LET res == extract_data(input_file[r])
     IN IF res.raised
        THEN UNCHANGED <<pc, result, raw_data, completed>>
        ELSE /\ pc' = [pc EXCEPT ![r] = "transform"]
             /\ raw_data' = [raw_data EXCEPT ![r] = res.value]
             /\ completed' = [completed EXCEPT ![r] = Append(@, "Extract")]
             /\ UNCHANGED result
  /\ UNCHANGED <<main_vars, dashboard_ret, error_log, call_df, call_ret, input_file, transformed_data, metrics, timestamp, step,
                 files, now, touched, snapshot, predecessors, disturbed, last_writer,
                 overlapped>>

\* line 269: raw_data = extract_data(input_file)
Extract(r) ==
  /\ pc[r] = "extract"
  /\ stages' = [stages EXCEPT ![r] = Append(@, "Extract")]
  /\ LET res == extract_data(input_file[r])
     IN IF res.raised
        THEN /\ pc' = [pc EXCEPT ![r] = "raised"]
             /\ result' = [result EXCEPT ![r] = res]
             /\ error_log' =
                  LogError(r, stage_error("Error extracting data", res) \o pipeline_error(res))
             /\ UNCHANGED <<raw_data, completed>>
        ELSE /\ pc' = [pc EXCEPT ![r] = "transform"]
             /\ raw_data' = [raw_data EXCEPT ![r] = res.value]
             /\ completed' = [completed EXCEPT ![r] = Append(@, "Extract")]
             /\ UNCHANGED <<result, error_log>>
  /\ UNCHANGED <<main_vars, dashboard_ret, call_df, call_ret, input_file, transformed_data, metrics, timestamp, step,
                 files, now, touched, snapshot, predecessors, disturbed, last_writer, overlapped>>

\* mutant of Transform: the empty-table check of lines 274-276 is missing
Transform_no_empty_check(r) ==
  /\ pc[r] = "transform"
  /\ stages' = [stages EXCEPT ![r] = Append(@, "Transform")]
  /\ LET res == transform_data(raw_data[r])
     IN IF res.raised
        THEN /\ pc' = [pc EXCEPT ![r] = "raised"]
             /\ result' = [result EXCEPT ![r] = res]
             /\ error_log' =
                  LogError(r, stage_error("Error transforming data", res) \o pipeline_error(res))
             /\ UNCHANGED <<transformed_data, completed>>
        ELSE /\ transformed_data' = [transformed_data EXCEPT ![r] = res.value]
             /\ completed' = [completed EXCEPT ![r] = Append(@, "Transform")]
             /\ error_log' = LogError(r, no_plans_error(res))
             /\ pc' = [pc EXCEPT ![r] = "calculate"]
             /\ UNCHANGED result
  /\ UNCHANGED <<main_vars, dashboard_ret, call_df, call_ret, input_file, raw_data, metrics, timestamp, step,
                 files, now, touched, snapshot, predecessors, disturbed, last_writer,
                 overlapped>>

\* lines 272-276: transformed_data = transform_data(raw_data), and the empty-table return
Transform(r) ==
  /\ pc[r] = "transform"
  /\ stages' = [stages EXCEPT ![r] = Append(@, "Transform")]
  /\ LET res == transform_data(raw_data[r])
     IN IF res.raised
        THEN /\ pc' = [pc EXCEPT ![r] = "raised"]
             /\ result' = [result EXCEPT ![r] = res]
             /\ error_log' =
                  LogError(r, stage_error("Error transforming data", res) \o pipeline_error(res))
             /\ UNCHANGED <<transformed_data, completed>>
        ELSE /\ transformed_data' = [transformed_data EXCEPT ![r] = res.value]
             /\ completed' = [completed EXCEPT ![r] = Append(@, "Transform")]
             /\ error_log' = LogError(r, no_plans_error(res))
             /\ IF NRows(res.value) = 0
                THEN /\ pc' = [pc EXCEPT ![r] = "returned"]
                     /\ result' = [result EXCEPT ![r] = Returned(None)]
                ELSE /\ pc' = [pc EXCEPT ![r] = "calculate"]
                     /\ UNCHANGED result
  /\ UNCHANGED <<main_vars, dashboard_ret, call_df, call_ret, input_file, raw_data, metrics, timestamp, step,
                 files, now, touched, snapshot, predecessors, disturbed, last_writer, overlapped>>

\* mutant of Calculate: a failure is swallowed and the run goes on to Load
Calculate_swallow(r) ==
  /\ pc[r] = "calculate"
  /\ stages' = [stages EXCEPT ![r] = Append(@, "Calculate")]
  /\ LET res == calculate_metrics(transformed_data[r], Today(now))
     IN /\ pc' = [pc EXCEPT ![r] = "load"]
        /\ metrics' = [metrics EXCEPT ![r] =
                         IF res.raised
                         THEN [total_plans |-> 0, total_requests |-> 0, completed_count |-> 0]
                         ELSE res.value]
        /\ completed' = [completed EXCEPT ![r] = Append(@, "Calculate")]
        /\ UNCHANGED result
  /\ UNCHANGED <<main_vars, dashboard_ret, error_log, call_df, call_ret, input_file, raw_data, transformed_data, timestamp, step,
                 files, now, touched, snapshot, predecessors, disturbed, last_writer,
                 overlapped>>

\* line 279: metrics = calculate_metrics(transformed_data)
Calculate(r) ==
  /\ pc[r] = "calculate"
  /\ stages' = [stages EXCEPT ![r] = Append(@, "Calculate")]
  /\ LET res == calculate_metrics(transformed_data[r], Today(now))
     IN IF res.raised
        THEN /\ pc' = [pc EXCEPT ![r] = "raised"]
             /\ result' = [result EXCEPT ![r] = res]
             /\ error_log' =
                  LogError(r, stage_error("Error calculating metrics", res) \o pipeline_error(res))
             /\ UNCHANGED <<metrics, completed>>
        ELSE /\ pc' = [pc EXCEPT ![r] = "load"]
             /\ metrics' = [metrics EXCEPT ![r] = res.value]
             /\ completed' = [completed EXCEPT ![r] = Append(@, "Calculate")]
             /\ UNCHANGED <<result, error_log>>
  /\ UNCHANGED <<main_vars, dashboard_ret, call_df, call_ret, input_file, raw_data, transformed_data, timestamp, step,
                 files, now, touched, snapshot, predecessors, disturbed, last_writer, overlapped>>

\* line 282 enters load_data; lines 217-220: makedirs succeeds, the timestamp is taken
LoadBegin(r) ==
  /\ pc[r] = "load"
  /\ stages' = [stages EXCEPT ![r] = Append(@, "Load")]
  /\ timestamp' = [timestamp EXCEPT ![r] = strftime(now)]
  /\ step' = [step EXCEPT ![r] = 1]
  /\ snapshot' = [snapshot EXCEPT ![r] = files]
  /\ predecessors' =
       [predecessors EXCEPT ![r] =
          {q \in Runs : pc[q] = "returned" /\ result[q] # Returned(None)}]
  /\ disturbed' = [disturbed EXCEPT ![r] = FALSE]
  /\ pc' = [pc EXCEPT ![r] = "load_open"]
  /\ UNCHANGED <<main_vars, dashboard_ret, error_log, call_df, call_ret, input_file, raw_data, transformed_data, metrics, result,
                 files, now, completed, touched, last_writer, overlapped>>

\* line 217: os.makedirs raises; lines 250-252 re-raise
LoadMkdirFail(r) ==
  /\ pc[r] = "load"
  /\ stages' = [stages EXCEPT ![r] = Append(@, "Load")]
  /\ pc' = [pc EXCEPT ![r] = "raised"]
  /\ result' = [result EXCEPT ![r] = Raised("OSError")]
  /\ error_log' =
       LogError(r, stage_error("Error loading data", Raised("OSError"))
                     \o pipeline_error(Raised("OSError")))
  /\ UNCHANGED <<main_vars, dashboard_ret, call_df, call_ret, input_file, raw_data, transformed_data, metrics, timestamp,
                 step, files, now, completed, touched, snapshot, predecessors, disturbed, last_writer,
                 overlapped>>

\* lines 224, 229, 237, 238: the next file is opened for writing, which empties it
LoadOpen(r) ==
  /\ pc[r] = "load_open"
  /\ files' = Truncate(files, CurrentFile(r))
  /\ touched' = [touched EXCEPT ![r] = Append(@, CurrentFile(r))]
  /\ disturbed' = Disturb(r, CurrentFile(r))
  /\ overlapped' =
       IF \E q \in Runs : q # r /\ pc[q] = "load_write" /\ CurrentFile(q) = CurrentFile(r)
       THEN overlapped \cup {CurrentFile(r)} ELSE overlapped
  /\ pc' = [pc EXCEPT ![r] = "load_write"]
  /\ UNCHANGED <<main_vars, dashboard_ret, error_log, call_df, call_ret, input_file, raw_data, transformed_data, metrics, timestamp,
                 step, result, now, stages, completed, snapshot, predecessors, last_writer>>

\* the open raises (permission denied); lines 250-252 re-raise
LoadOpenFail(r) ==
  /\ pc[r] = "load_open"
  /\ pc' = [pc EXCEPT ![r] = "raised"]
  /\ result' = [result EXCEPT ![r] = Raised("OSError")]
  /\ error_log' =
       LogError(r, stage_error("Error loading data", Raised("OSError"))
                     \o pipeline_error(Raised("OSError")))
  /\ UNCHANGED <<main_vars, dashboard_ret, call_df, call_ret, input_file, raw_data, transformed_data, metrics, timestamp,
                 step, files, now, stages, completed, touched, snapshot, predecessors, disturbed,
                 last_writer, overlapped>>

\* the content is written and the file closed; after the fourth, lines 243-248 return
LoadWrite(r) ==
  /\ pc[r] = "load_write"
  /\ files' = WriteAt(files, CurrentFile(r),
                      write_content(transformed_data[r], metrics[r])[step[r]])
  /\ last_writer' =
       [f \in DOMAIN last_writer \cup {CurrentFile(r)} |->
          IF f = CurrentFile(r) THEN r ELSE last_writer[f]]
  /\ disturbed' = Disturb(r, CurrentFile(r))
  /\ IF step[r] = Len(write_order(timestamp[r]))
     THEN /\ pc' = [pc EXCEPT ![r] = "returned"]
          /\ result' = [result EXCEPT ![r] = Returned(output_paths(timestamp[r]))]
          /\ completed' = [completed EXCEPT ![r] = Append(@, "Load")]
          /\ UNCHANGED step
     ELSE /\ pc' = [pc EXCEPT ![r] = "load_open"]
          /\ step' = [step EXCEPT ![r] = @ + 1]
          /\ UNCHANGED <<result, completed>>
  /\ UNCHANGED <<main_vars, dashboard_ret, error_log, call_df, call_ret, input_file, raw_data, transformed_data, metrics, timestamp,
                 now, stages, touched, snapshot, predecessors, overlapped>>

\* mutant of LoadWriteFail: the except clause removes what the run has written so far
LoadWriteFail_cleanup(r) ==
  /\ pc[r] = "load_write"
  /\ files' = [f \in DOMAIN files \ SeqToSet(touched[r]) |-> files[f]]
  /\ disturbed' = Disturb(r, CurrentFile(r))
  /\ pc' = [pc EXCEPT ![r] = "raised"]
  /\ result' = [result EXCEPT ![r] = Raised("OSError")]
  /\ error_log' =
       LogError(r, stage_error("Error loading data", Raised("OSError"))
                     \o pipeline_error(Raised("OSError")))
  /\ UNCHANGED <<main_vars, dashboard_ret, call_df, call_ret, input_file, raw_data, transformed_data, metrics, timestamp,
                 step, now, stages, completed, touched, snapshot, predecessors, last_writer,
                 overlapped>>

\* the write raises part-way (disk full, a value json cannot encode): nothing, or all
\* but the last line, has reached the file; lines 250-252 re-raise and clean nothing up
LoadWriteFail(r) ==
  /\ pc[r] = "load_write"
  /\ \E k \in {0, Len(write_content(transformed_data[r], metrics[r])[step[r]]) - 1} :
       files' = WriteAt(files, CurrentFile(r),
                        SubSeq(write_content(transformed_data[r], metrics[r])[step[r]], 1, k))
  /\ disturbed' = Disturb(r, CurrentFile(r))
  /\ pc' = [pc EXCEPT ![r] = "raised"]
  /\ result' = [result EXCEPT ![r] = Raised("OSError")]
  /\ error_log' =
       LogError(r, stage_error("Error loading data", Raised("OSError"))
                     \o pipeline_error(Raised("OSError")))
  /\ UNCHANGED <<main_vars, dashboard_ret, call_df, call_ret, input_file, raw_data, transformed_data, metrics, timestamp,
                 step, now, stages, completed, touched, snapshot, predecessors, last_writer, overlapped>>

\* a second passes on the wall clock
Tick ==
  /\ now < MaxClock
  /\ now' = now + 1
  /\ UNCHANGED <<main_vars, dashboard_ret, error_log, call_df, call_ret, pc, input_file, raw_data, transformed_data, metrics,
                 timestamp, step, result, files, stages, completed, touched, snapshot, predecessors,
                 disturbed, last_writer, overlapped>>

Next ==
  \/ \E r \in Runs :
       \/ Extract(r)
       \/ Transform(r)
       \/ Calculate(r)
       \/ LoadBegin(r)
       \/ LoadMkdirFail(r)
       \/ LoadOpen(r)
       \/ LoadOpenFail(r)
       \/ LoadWrite(r)
       \/ LoadWriteFail(r)
  \/ Tick

Spec == Init /\ [][Next]_vars

(***************************************************************************)
(* main (lines 291-312): the command line is parsed, the pipeline is run,  *)
(* and its outcome is printed.                                             *)
(***************************************************************************)
\* the processes started from the command line: one, the other run stays idle
MainRuns == {1}

\* the command lines main may be started with
CommandLines ==
  {<<>>, <<"--output", "out">>}
    \cup {<<"--input", f>> : f \in InputFiles}
    \cup {<<"--input", f, "--output", "out">> : f \in {"one.xlsx", "corrupt.xlsx"}}

\* the position of an option in a command line, 0 if it is not given
OptionAt(args, option) ==
  IF \E i \in DOMAIN args : args[i] = option /\ i < Len(args)
  THEN CHOOSE i \in DOMAIN args : args[i] = option /\ i < Len(args)
  ELSE 0

\* lines 293-297: parser.parse_args(); --input is required, a missing one is argparse's error
parse_args(args) ==
  IF OptionAt(args, "--input") = 0
  THEN Raised("the following arguments are required: --input")
  ELSE Returned([input |-> args[OptionAt(args, "--input") + 1]])

\* a process that has ended, with its exit status
Exited(status) == [status |-> status]

\* the status parser.error() exits with
ArgparseErrorStatus == 2

\* the order dict.items() yields output_paths' keys in (lines 242-247)
PathKeys == <<"processed_data_path", "metrics_path", "latest_data_path", "latest_metrics_path">>

\* lines 303-306: the header, then one line per key and path
success_lines(paths) ==
  <<"ETL completed successfully. Output files:">>
    \o [i \in DOMAIN PathKeys |-> "  " \o PathKeys[i] \o ": " \o paths[PathKeys[i]]]

InitMain ==
  /\ call_df = EmptyDataFrame
  /\ call_ret = NotCalled
  /\ pc = [r \in Runs |-> IF r \in MainRuns THEN "main" ELSE "idle"]
  /\ argv \in [Runs -> {[args |-> c] : c \in CommandLines} \cup {NoValue}]
  /\ \A r \in Runs : argv[r] = NoValue <=> r \notin MainRuns
  /\ input_file = [r \in Runs |-> NoValue]
  /\ raw_data = [r \in Runs |-> NoValue]
  /\ transformed_data = [r \in Runs |-> NoValue]
  /\ metrics = [r \in Runs |-> NoValue]
  /\ timestamp = [r \in Runs |-> ""]
  /\ step = [r \in Runs |-> 0]
  /\ result = [r \in Runs |-> NoValue]
  /\ files = <<>>
  /\ now = 0
  /\ stages = [r \in Runs |-> <<>>]
  /\ completed = [r \in Runs |-> <<>>]
  /\ touched = [r \in Runs |-> <<>>]
  /\ snapshot = [r \in Runs |-> NoValue]
  /\ predecessors = [r \in Runs |-> {}]
  /\ disturbed = [r \in Runs |-> FALSE]
  /\ last_writer = <<>>
  /\ overlapped = {}
  /\ error_log = [r \in Runs |-> <<>>]
  /\ exit_status = [r \in Runs |-> NoValue]
  /\ stdout = [r \in Runs |-> <<>>]
  /\ stderr = [r \in Runs |-> <<>>]
  /\ dashboard_ret = NotCalled

\* lines 293-301: the arguments are parsed; run_etl_pipeline is entered with args.input,
\* or argparse prints its usage error and exits
ParseArgs(r) ==
  /\ pc[r] = "main"
  /\ LET args == parse_args(argv[r].args)
     IN IF args.raised
        THEN /\ pc' = [pc EXCEPT ![r] = "exited"]
             /\ exit_status' = [exit_status EXCEPT ![r] = Exited(ArgparseErrorStatus)]
             /\ stderr' = [stderr EXCEPT ![r] = @ \o <<"error: " \o args.error>>]
             /\ UNCHANGED input_file
        ELSE /\ pc' = [pc EXCEPT ![r] = "extract"]
             /\ input_file' = [input_file EXCEPT ![r] = args.value.input]
             /\ UNCHANGED <<exit_status, stderr>>
  /\ UNCHANGED <<call_df, call_ret, raw_data, transformed_data, metrics, timestamp, step, result,
                 files, now, stages, completed, touched, snapshot, predecessors, disturbed,
                 last_writer, overlapped, error_log, argv, stdout, dashboard_ret>>

\* mutant of MainReport: the failure is printed but the process exits normally
MainReport_exits_normally(r) ==
  /\ argv[r] # NoValue
  /\ pc[r] \in {"returned", "raised"}
  /\ exit_status[r] = NoValue
  /\ IF pc[r] = "raised"
     THEN /\ stdout' = [stdout EXCEPT ![r] = @ \o <<"ETL failed: " \o result[r].error>>]
          /\ exit_status' = [exit_status EXCEPT ![r] = Exited(0)]
     ELSE /\ stdout' =
               [stdout EXCEPT ![r] =
                  @ \o IF result[r].value # None
                       THEN success_lines(result[r].value)
                       ELSE <<"ETL completed but no data was processed.">>]
          /\ exit_status' = [exit_status EXCEPT ![r] = Exited(0)]
  /\ UNCHANGED <<call_df, call_ret, pc, input_file, raw_data, transformed_data, metrics,
                 timestamp, step, result, files, now, stages, completed, touched, snapshot,
                 predecessors, disturbed, last_writer, overlapped, error_log, argv, stderr, dashboard_ret>>

\* lines 303-312: what main prints and how it ends once run_etl_pipeline is back
MainReport(r) ==
  /\ argv[r] # NoValue
  /\ pc[r] \in {"returned", "raised"}
  /\ exit_status[r] = NoValue
  /\ IF pc[r] = "raised"
     THEN /\ stdout' = [stdout EXCEPT ![r] = @ \o <<"ETL failed: " \o result[r].error>>]
          /\ exit_status' = [exit_status EXCEPT ![r] = Exited(1)]
     ELSE /\ stdout' =
               [stdout EXCEPT ![r] =
                  @ \o IF result[r].value # None
                       THEN success_lines(result[r].value)
                       ELSE <<"ETL completed but no data was processed.">>]
          /\ exit_status' = [exit_status EXCEPT ![r] = Exited(0)]
  /\ UNCHANGED <<call_df, call_ret, pc, input_file, raw_data, transformed_data, metrics,
                 timestamp, step, result, files, now, stages, completed, touched, snapshot,
                 predecessors, disturbed, last_writer, overlapped, error_log, argv, stderr, dashboard_ret>>

NextMain ==
  \/ \E r \in MainRuns :
       \/ ParseArgs(r)
       \/ Extract(r)
       \/ Transform(r)
       \/ Calculate(r)
       \/ LoadBegin(r)
       \/ LoadMkdirFail(r)
       \/ LoadOpen(r)
       \/ LoadOpenFail(r)
       \/ LoadWrite(r)
       \/ LoadWriteFail(r)
       \/ MainReport(r)
  \/ Tick

SpecMain == InitMain /\ [][NextMain]_vars

(***************************************************************************)
(* transform_data called directly on every small raw table.                *)
(***************************************************************************)
TransformCols ==
  <<"Fund Name", "Cusip", "Estimated Funding Date", "Estimated Funding Amount",
    "Mapping from Mutual Fund?", "Status Detail">>

\* the cell values a raw table may hold in each column; the first is the usual one
CellValues(col) ==
  CASE col = "Fund Name" -> <<Str("the PUTNAM fund"), Str("Putman Fund"), Null>>
    [] col = "Cusip" -> <<Str("C1"), Null, Num(7)>>
    [] col = "Estimated Funding Date" -> <<Date(20800), Null, Str("2026-12-25"), Str("soon")>>
    [] col = "Estimated Funding Amount" -> <<Num(5), Null, Str("N/A"), Str("12"), Num(-3)>>
    [] col = "Mapping from Mutual Fund?" ->
         <<Str("Yes"), Null, Str(" YES "), Str("maybe"), Str(" maybe "), Str("n"), Num(1)>>
    [] OTHER -> <<Str("Open"), Null, Str(" Ready to Trade ")>>

\* a row that is usual but for its fund name and the k-th value of one other column
RawRow(fund, odd, k) ==
  [c \in SeqToSet(TransformCols) |->
     IF c = "Fund Name" THEN fund
     ELSE IF c = odd THEN CellValues(c)[k] ELSE CellValues(c)[1]]

\* the rows of raw tables: a text fund name and at most one other cell that is unusual,
\* or a null fund name
RawRows ==
  UNION {{RawRow(fo[1], fo[2], k) : k \in DOMAIN CellValues(fo[2])} :
         fo \in {Str("the PUTNAM fund"), Str("Putman Fund")} \X
                (SeqToSet(TransformCols) \ {"Fund Name"})}
  \cup {RawRow(Null, "Cusip", 1)}

\* the raw tables: up to MaxRows rows, with the dtypes pandas infers
RawTables ==
  {MakeTable(TransformCols, rows) : rows \in UNION {[1..n -> RawRows] : n \in 0..MaxRows}}

InitT ==
  /\ call_df \in RawTables
  /\ call_ret = NotCalled
  /\ pc = [r \in Runs |-> "extract"]
  /\ input_file = [r \in Runs |-> "one.xlsx"]
  /\ raw_data = [r \in Runs |-> NoValue]
  /\ transformed_data = [r \in Runs |-> NoValue]
  /\ metrics = [r \in Runs |-> NoValue]
  /\ timestamp = [r \in Runs |-> ""]
  /\ step = [r \in Runs |-> 0]
  /\ result = [r \in Runs |-> NoValue]
  /\ files = <<>>
  /\ now = 0
  /\ stages = [r \in Runs |-> <<>>]
  /\ completed = [r \in Runs |-> <<>>]
  /\ touched = [r \in Runs |-> <<>>]
  /\ snapshot = [r \in Runs |-> NoValue]
  /\ predecessors = [r \in Runs |-> {}]
  /\ disturbed = [r \in Runs |-> FALSE]
  /\ last_writer = <<>>
  /\ overlapped = {}
  /\ error_log = [r \in Runs |-> <<>>]
  /\ NotStartedByMain
  /\ dashboard_ret = NotCalled

\* transform_data(call_df) is called and returns or raises
TransformCall ==
  /\ call_ret = NotCalled
  /\ call_ret' = transform_data(call_df)
  /\ error_log' = LogError(1, stage_error("Error transforming data", call_ret')
                                \o no_plans_error(call_ret'))
  /\ UNCHANGED <<call_df, dashboard_ret, pipeline_vars>>

NextT == TransformCall

SpecT == InitT /\ [][NextT]_vars

(***************************************************************************)
(* transform_data called directly on raw tables that lack some of the      *)
(* expected columns.                                                       *)
(***************************************************************************)
\* the columns of TransformCols that are in keep, in their order
SubCols(keep) == SelectSeq(TransformCols, LAMBDA c : c \in keep)

\* the rows of raw tables with columns missing: usual cells, each kind of fund name
PartialRows == {RawRow(fund, "Cusip", 1) : fund \in SeqToSet(CellValues("Fund Name"))}

\* the raw tables that hold only the columns of keep (a table without columns has no rows)
PartialTablesOf(keep) ==
  {MakeTable(SubCols(keep), [i \in DOMAIN rows |-> [c \in keep |-> rows[i][c]]]) :
     rows \in UNION {[1..n -> PartialRows] : n \in 0..(IF keep = {} THEN 0 ELSE MaxRows)}}

PartialTables == UNION {PartialTablesOf(keep) : keep \in SUBSET SeqToSet(TransformCols)}

InitC ==
  /\ call_df \in PartialTables
  /\ call_ret = NotCalled
  /\ pc = [r \in Runs |-> "extract"]
  /\ input_file = [r \in Runs |-> "one.xlsx"]
  /\ raw_data = [r \in Runs |-> NoValue]
  /\ transformed_data = [r \in Runs |-> NoValue]
  /\ metrics = [r \in Runs |-> NoValue]
  /\ timestamp = [r \in Runs |-> ""]
  /\ step = [r \in Runs |-> 0]
  /\ result = [r \in Runs |-> NoValue]
  /\ files = <<>>
  /\ now = 0
  /\ stages = [r \in Runs |-> <<>>]
  /\ completed = [r \in Runs |-> <<>>]
  /\ touched = [r \in Runs |-> <<>>]
  /\ snapshot = [r \in Runs |-> NoValue]
  /\ predecessors = [r \in Runs |-> {}]
  /\ disturbed = [r \in Runs |-> FALSE]
  /\ last_writer = <<>>
  /\ overlapped = {}
  /\ error_log = [r \in Runs |-> <<>>]
  /\ NotStartedByMain
  /\ dashboard_ret = NotCalled

SpecC == InitC /\ [][NextT]_vars

(***************************************************************************)
(* The same raw table handed to transform_data and to the dashboard's      *)
(* load_and_process_data.                                                  *)
(***************************************************************************)
InitDash == InitT \/ InitC

\* load_and_process_data(file) is called on the table read from the file
DashboardCall ==
  /\ dashboard_ret = NotCalled
  /\ dashboard_ret' = load_and_process_data(call_df)
  /\ UNCHANGED <<call_df, call_ret, error_log, pipeline_vars>>

NextDash == TransformCall \/ DashboardCall

SpecDash == InitDash /\ [][NextDash]_vars

(***************************************************************************)
(* calculate_metrics called directly on cleaned tables, today or tomorrow. *)
(***************************************************************************)
\* the most rows of a raw table whose cleaned table is handed to calculate_metrics
MaxMetricRows == 3

MetricCols ==
  <<"Fund Name", "Plan Name", "Request Status", "Status Detail", "Advisor Firm Name",
    "Estimated Funding Date", "Estimated Funding Amount", "Mapping from Mutual Fund?">>

MetricRow(fund, plan, status, detail, advisor, date, amount, mapping) ==
  [c \in SeqToSet(MetricCols) |->
     CASE c = "Fund Name" -> fund
       [] c = "Plan Name" -> plan
       [] c = "Request Status" -> status
       [] c = "Status Detail" -> detail
       [] c = "Advisor Firm Name" -> advisor
       [] c = "Estimated Funding Date" -> date
       [] c = "Estimated Funding Amount" -> amount
       [] OTHER -> mapping]

\* the rows of those raw tables: funding dates before, on and after the first day of
\* the clock, around the end of the 30-day window, missing and unreadable
MetricRows ==
  {MetricRow(Str("Putnam Growth"), Str("P1"), Str("Open"), Str("Awaiting Signature"),
             Str("Adv A"), Date(Today(0) - 1), Num(5), Str("Yes")),
   MetricRow(Str("Putnam Growth"), Str("P1"), Str("Open"), Str("ready to trade"),
             Str("Adv A"), Date(Today(0)), Num(7), Str("No")),
   MetricRow(Str("PUTNAM Income"), Str("P2"), Str("Closed"), Str("Ready to Trade"),
             Str("Adv B"), Date(Today(0) + 29), Num(12), Str("Yes")),
   MetricRow(Str("PUTNAM Income"), Str("P2"), Str("Open"), Str("Awaiting Signature"),
             Str("Adv B"), Date(Today(0) + 30), Num(3), Str("maybe")),
   MetricRow(Str("the putnam fund"), Str("P3"), Str("Closed"), Null,
             Str("Adv A"), Null, Null, Null),
   MetricRow(Str("the putnam fund"), Str("P3"), Str("Open"), Str(" Now READY TO TRADE "),
             Str("Adv C"), Date(Today(0) + 31), Str("N/A"), Str("n")),
   MetricRow(Str("Other Fund"), Str("P9"), Str("Open"), Str("Ready to Trade"),
             Str("Adv A"), Date(Today(0) + 1), Num(5), Str("Yes")),
   MetricRow(Str("Putnam Growth"), Str("P1"), Str("Closed"), Str("Ready to Trade"),
             Str("Adv B"), Str("soon"), Num(1), Str("No"))}

\* the raw tables with every column
MetricRawTables ==
  {MakeTable(MetricCols, rows) : rows \in UNION {[1..n -> MetricRows] : n \in 0..MaxMetricRows}}

\* the columns a raw table may lack
DroppedCols ==
  {{"Estimated Funding Date"}, {"Mapping from Mutual Fund?"}, {"Estimated Funding Amount"},
   {"Estimated Funding Date", "Mapping from Mutual Fund?"}, {"Advisor Firm Name"},
   {"Plan Name"}}

\* the one-row raw tables that lack some columns
MetricPartialTables ==
  {MakeTable(SelectSeq(MetricCols, LAMBDA c : c \notin drop),
             <<[c \in SeqToSet(MetricCols) \ drop |-> row[c]]>>) :
     row \in MetricRows, drop \in DroppedCols}

\* what transform_data returns for those raw tables
TransformedTables ==
  {transform_data(t).value :
     t \in {u \in MetricRawTables \cup MetricPartialTables : ~transform_data(u).raised}}

\* the cleaned tables: those, and each of them with its rows taken away
CleanTables == TransformedTables \cup {[t EXCEPT !.rows = <<>>] : t \in TransformedTables}

InitM ==
  /\ call_df \in CleanTables
  /\ now \in {0, SecondsPerDay}
  /\ call_ret = NotCalled
  /\ pc = [r \in Runs |-> "extract"]
  /\ input_file = [r \in Runs |-> "one.xlsx"]
  /\ raw_data = [r \in Runs |-> NoValue]
  /\ transformed_data = [r \in Runs |-> NoValue]
  /\ metrics = [r \in Runs |-> NoValue]
  /\ timestamp = [r \in Runs |-> ""]
  /\ step = [r \in Runs |-> 0]
  /\ result = [r \in Runs |-> NoValue]
  /\ files = <<>>
  /\ stages = [r \in Runs |-> <<>>]
  /\ completed = [r \in Runs |-> <<>>]
  /\ touched = [r \in Runs |-> <<>>]
  /\ snapshot = [r \in Runs |-> NoValue]
  /\ predecessors = [r \in Runs |-> {}]
  /\ disturbed = [r \in Runs |-> FALSE]
  /\ last_writer = <<>>
  /\ overlapped = {}
  /\ error_log = [r \in Runs |-> <<>>]
  /\ NotStartedByMain
  /\ dashboard_ret = NotCalled

\* calculate_metrics(call_df) is called and returns or raises
MetricsCall ==
  /\ call_ret = NotCalled
  /\ call_ret' = calculate_metrics(call_df, Today(now))
  /\ error_log' = LogError(1, stage_error("Error calculating metrics", call_ret'))
  /\ UNCHANGED <<call_df, dashboard_ret, pipeline_vars>>

NextM == MetricsCall

SpecM == InitM /\ [][NextM]_vars

(***************************************************************************)
(* calculate_metrics called on cleaned tables with many dimension values.  *)
(***************************************************************************)
\* the most rows of such a table
MaxDimRows == 12

DimCols ==
  <<"Fund Name", "Plan Name", "Request Status", "Status Detail", "Advisor Firm Name",
    "Recordkeeper Name", "NSCC Firm Name">>

\* the dimension value of row i when k values go round (spread) or when the first k - 1
\* rows have a value each and all later rows the k-th
Spread(i, k) == ((i - 1) % k) + 1
Heaped(i, k) == IF i < k THEN i ELSE k

\* row i of the raw table with k dimension values and statuses changing every s rows
DimRow(i, k, s) ==
  [c \in SeqToSet(DimCols) |->
     CASE c = "Fund Name" -> Str("Putnam Growth")
       [] c = "Plan Name" -> Str("P" \o NatToStr(i))
       [] c = "Request Status" -> IF (i \div s) % 2 = 0 THEN Str("Open") ELSE Str("Closed")
       [] c = "Status Detail" -> Str("Ready to Trade")
       [] c = "Advisor Firm Name" -> Str("Adv " \o NatToStr(Spread(i, k)))
       [] c = "Recordkeeper Name" -> Str(" RK " \o NatToStr(Heaped(i, k)))
       [] OTHER -> Str("NSCC")]

\* the raw tables of n rows with k dimension values, for each n, k and s
DimRawTables ==
  {MakeTable(DimCols, [i \in 1..nks[1] |-> DimRow(i, nks[2], nks[3])]) :
     nks \in {x \in (0..MaxDimRows) \X (1..MaxDimRows) \X (1..2) : x[2] <= x[1] \/ x[2] = 1}}

DimTables == {transform_data(t).value : t \in DimRawTables}

InitD ==
  /\ call_df \in DimTables
  /\ now = 0
  /\ call_ret = NotCalled
  /\ pc = [r \in Runs |-> "extract"]
  /\ input_file = [r \in Runs |-> "one.xlsx"]
  /\ raw_data = [r \in Runs |-> NoValue]
  /\ transformed_data = [r \in Runs |-> NoValue]
  /\ metrics = [r \in Runs |-> NoValue]
  /\ timestamp = [r \in Runs |-> ""]
  /\ step = [r \in Runs |-> 0]
  /\ result = [r \in Runs |-> NoValue]
  /\ files = <<>>
  /\ stages = [r \in Runs |-> <<>>]
  /\ completed = [r \in Runs |-> <<>>]
  /\ touched = [r \in Runs |-> <<>>]
  /\ snapshot = [r \in Runs |-> NoValue]
  /\ predecessors = [r \in Runs |-> {}]
  /\ disturbed = [r \in Runs |-> FALSE]
  /\ last_writer = <<>>
  /\ overlapped = {}
  /\ error_log = [r \in Runs |-> <<>>]
  /\ NotStartedByMain
  /\ dashboard_ret = NotCalled

SpecD == InitD /\ [][NextM]_vars

(***************************************************************************)
(* The claims.                                                             *)
(***************************************************************************)
IsPrefix(a, b) == Len(a) <= Len(b) /\ SubSeq(b, 1, Len(a)) = a

Last(q) == q[Len(q)]

\* the fund-name test as the specification words it: the text holds the token
\* "Putnam" in some position, letter case ignored
HasPutnamToken(c) ==
  IsStr(c) /\ \E i \in 1..(Len(c.s) - 5) : Lower(SubSeq(c.s, i, i + 5)) = "putnam"

\* the rows of the table handed to transform_data that hold the token
KeptRows == SelectRows(call_df.rows, [i \in DOMAIN call_df.rows |-> HasPutnamToken(call_df.rows[i]["Fund Name"])])

CallReturned == call_ret # NotCalled /\ ~call_ret.raised

\* C1: the table transform_data returns holds exactly the input rows whose
\* 'Fund Name' contains 'Putnam' case-insensitively, in their order: every such row
\* is kept, and no row without the token (or with a null fund name) survives.
C1_FilterKeepsExactlyPutnamRows ==
  CallReturned =>
    /\ NRows(call_ret.value) = Len(KeptRows)
    /\ \A i \in 1..Len(KeptRows) :
         call_ret.value.rows[i]["Fund Name"] = KeptRows[i]["Fund Name"]

\* C1 witness: of two rows, one without the token and one with it in another letter
\* case, the second alone is returned
C1_Witness ==
  /\ CallReturned
  /\ NRows(call_df) = 2
  /\ call_df.rows[1]["Fund Name"] = Str("Putman Fund")
  /\ call_df.rows[2]["Fund Name"] = Str("the PUTNAM fund")
  /\ NRows(call_ret.value) = 1
  /\ call_ret.value.rows[1]["Fund Name"] = Str("the PUTNAM fund")

\* C2: when Transform returns an empty table (no input rows, or none matching the
\* fund filter), the run returns None without raising, neither Calculate nor Load
\* is started, and the run opens no file of the output directory.
C2_EmptyTableShortCircuits ==
  \A r \in Runs :
    (transformed_data[r] # NoValue /\ NRows(transformed_data[r]) = 0) =>
      /\ pc[r] = "returned"
      /\ result[r] = Returned(None)
      /\ stages[r] = <<"Extract", "Transform">>
      /\ touched[r] = <<>>

\* C2 witness: a run on a sheet without rows and a run on a sheet without matching
\* rows have both returned None
C2_Witness ==
  \E r, q \in Runs :
    /\ input_file[r] = "empty.xlsx" /\ input_file[q] = "other.xlsx"
    /\ pc[r] = "returned" /\ result[r] = Returned(None)
    /\ pc[q] = "returned" /\ result[q] = Returned(None)

\* what the stage a run started last raised, if it raised
StageFailure(r) ==
  IF Len(stages[r]) = 1 THEN extract_data(input_file[r])
  ELSE IF Len(stages[r]) = 2 THEN transform_data(raw_data[r])
  ELSE calculate_metrics(transformed_data[r], Today(now))

\* C3: if Extract, Transform or Calculate raises, the run raises that error to its
\* caller, starts no later stage, and opens no file of the output directory.
C3_EarlyStageFailureAborts ==
  \A r \in Runs :
    Len(stages[r]) \in 1..3 =>
      LET failure == StageFailure(r)
      IN failure.raised =>
           /\ pc[r] = "raised"
           /\ result[r] = failure
           /\ touched[r] = <<>>

\* C3 witness: a run has raised out of Calculate while the other run's four files
\* stand in the output directory as that run wrote them
C3_Witness ==
  \E r, q \in Runs :
    /\ pc[r] = "raised" /\ stages[r] = <<"Extract", "Transform", "Calculate">>
    /\ result[r] = Raised("KeyError")
    /\ pc[q] = "returned" /\ result[q] # Returned(None)
    /\ files[latest_csv_path] = to_csvs[transformed_data[q]]

\* C4: in every run the stages start in the order Extract, Transform, Calculate,
\* Load, each at most once, and a stage starts only after the one before it has
\* completed successfully.
C4_StagesSequentialOnce ==
  \A r \in Runs :
    /\ IsPrefix(stages[r], StageOrder)
    /\ IsPrefix(completed[r], stages[r])
    /\ Len(stages[r]) <= Len(completed[r]) + 1

\* C4 witness: a run has gone through all four stages
C4_Witness ==
  \E r \in Runs : stages[r] = StageOrder /\ completed[r] = StageOrder /\ pc[r] = "returned"

\* the run returned the four locations (not None)
ReturnsPaths(r) == pc[r] = "returned" /\ result[r] # Returned(None)

\* the four files of a run, in the order the specification lists them
FourArtifacts(r) ==
  <<"putnam_data_" \o timestamp[r] \o ".csv", "putnam_metrics_" \o timestamp[r] \o ".json",
    "putnam_data_latest.csv", "putnam_metrics_latest.json">>

\* what a run means to put into the j-th of them
ArtifactContent(r, j) ==
  IF j \in {1, 3} THEN to_csvs[transformed_data[r]] ELSE json_dumps[metrics[r]]

HoldsContent(f, lines) == f \in DOMAIN files /\ files[f] = lines

\* the four artifacts exist, the mapping names them, and each latest artifact has
\* the content of its timestamped artifact
LoadPostcondition(r) ==
  /\ \A j \in 1..4 : FourArtifacts(r)[j] \in DOMAIN files
  /\ result[r].value =
       [processed_data_path |-> FourArtifacts(r)[1], metrics_path |-> FourArtifacts(r)[2],
        latest_data_path |-> FourArtifacts(r)[3], latest_metrics_path |-> FourArtifacts(r)[4]]
  /\ files[FourArtifacts(r)[3]] = files[FourArtifacts(r)[1]]
  /\ files[FourArtifacts(r)[4]] = files[FourArtifacts(r)[2]]

\* C5 as stated: whenever load_data returns, the four artifacts exist, the returned
\* mapping names them, and each latest artifact has the content of this run's
\* timestamped artifact.
C5_LoadPostcondition_AsStated ==
  [][\A r \in Runs :
       (pc[r] = "load_write" /\ pc'[r] = "returned") => LoadPostcondition(r)']_vars

\* C5 amended: the same, when no other run has written to one of the four files since
\* this load_data began; each artifact then holds what this run wrote.
C5_LoadPostcondition_Undisturbed ==
  [][\A r \in Runs :
       (pc[r] = "load_write" /\ pc'[r] = "returned" /\ ~disturbed'[r]) =>
         (/\ LoadPostcondition(r)
          /\ \A j \in 1..4 : HoldsContent(FourArtifacts(r)[j], ArtifactContent(r, j)))']_vars

\* C5 witness: a run has returned its four paths undisturbed, after the other run had
\* put other content into the latest files
C5_Witness ==
  \E r, q \in Runs :
    /\ ReturnsPaths(r) /\ ~disturbed[r] /\ LoadPostcondition(r)
    /\ q \in predecessors[r]
    /\ transformed_data[q] # transformed_data[r]

\* C6: a timestamped artifact a run has returned is still there, with the content that
\* run wrote, whatever a run that entered load_data later does.
C6_TimestampedArtifactsImmutable ==
  \A q \in Runs : \A r \in predecessors[q] : \A j \in 1..2 :
    HoldsContent(FourArtifacts(r)[j], ArtifactContent(r, j))

FailedInLoad(r) == pc[r] = "raised" /\ stages[r] = StageOrder

\* C7: when load_data fails, the failure is raised and nothing cleaned up: the run has
\* opened a leading part of (timestamped data, timestamped metrics, latest data,
\* latest metrics); unless another run wrote to them since, the files before the
\* failing one hold this run's content and the files after it are as they were when
\* load_data began; so a latest file is opened only after both timestamped ones were
\* written.
C7_PartialLoadLeavesPrefix ==
  \A r \in Runs :
    FailedInLoad(r) =>
      /\ result[r] = Raised("OSError")
      /\ IsPrefix(touched[r], FourArtifacts(r))
      /\ Len(touched[r]) \in {step[r] - 1, step[r]}
      /\ (EnteredLoad(r) /\ ~disturbed[r]) =>
           \A j \in 1..4 :
             /\ j < step[r] => HoldsContent(FourArtifacts(r)[j], ArtifactContent(r, j))
             /\ j > step[r] =>
                  IF FourArtifacts(r)[j] \in DOMAIN snapshot[r]
                  THEN HoldsContent(FourArtifacts(r)[j], snapshot[r][FourArtifacts(r)[j]])
                  ELSE FourArtifacts(r)[j] \notin DOMAIN files

\* C7 witness: a run failed writing the latest data file: its timestamped files hold
\* its content while the latest metrics file still holds the earlier run's
C7_Witness ==
  \E r, q \in Runs :
    /\ FailedInLoad(r) /\ ~disturbed[r] /\ step[r] = 3 /\ Len(touched[r]) = 3
    /\ q \in predecessors[r]
    /\ metrics[q] # metrics[r]
    /\ HoldsContent(FourArtifacts(r)[2], json_dumps[metrics[r]])
    /\ HoldsContent("putnam_metrics_latest.json", json_dumps[metrics[q]])

LatestArtifacts == {"putnam_data_latest.csv", "putnam_metrics_latest.json"}

\* what a run means to put into a latest file
LatestContent(r, f) ==
  IF f = "putnam_data_latest.csv" THEN to_csvs[transformed_data[r]] ELSE json_dumps[metrics[r]]

BothReturned == \A r \in Runs : ReturnsPaths(r)

ReturnedRows == CallReturned /\ NRows(call_ret.value) > 0

\* what the specification says a null of the given column becomes
FilledNull(col) ==
  IF col = "Estimated Funding Amount" THEN Num(0)
  ELSE IF col = "Mapping from Mutual Fund?" \/ call_df.dtype[col] = "object" THEN Str("")
  ELSE Num(0)

\* C9: in a non-empty table transform_data returns, no cell of a numeric or text
\* column is null, every numeric null of the input has become 0 and every text null
\* the empty string, a null 'Mapping from Mutual Fund?' included.  (Date columns, and
\* a text column read as all-empty, are left out.)
C9_NullsFilled_AsStated ==
  ReturnedRows =>
    \A i \in 1..Len(KeptRows) : \A c \in SeqToSet(call_df.cols) :
      /\ call_ret.value.dtype[c] \in {"float64", "int64", "object"} =>
           ~IsNull(call_ret.value.rows[i][c])
      /\ (/\ IsNull(KeptRows[i][c])
          /\ c \notin SeqToSet(date_cols)
          /\ ~(c \in SeqToSet(text_cols) /\ call_df.dtype[c] # "object")) =>
           call_ret.value.rows[i][c] = FilledNull(c)

MappingOf(row) == row["Mapping from Mutual Fund?"]

ExpectedMapping(cell, dtype) ==
  IF IsStr(cell) THEN
    (IF Lower(Strip(cell.s)) \in {"yes", "y", "true", "1"} THEN Str("Yes")
     ELSE IF Lower(Strip(cell.s)) \in {"no", "n", "false", "0"} THEN Str("No")
     ELSE Str(Strip(cell.s)))
  ELSE IF IsNull(cell) THEN Str("nan")
  ELSE IF IsNum(cell) /\ dtype = "float64" THEN Str(IntToStr(cell.n) \o ".0")
  ELSE IF IsNum(cell) /\ cell.n = 1 THEN Str("Yes")
  ELSE IF IsNum(cell) /\ cell.n = 0 THEN Str("No")
  ELSE Str(IntToStr(cell.n))

C11_MissingColumnsTolerated ==
  call_ret # NotCalled => (call_ret.raised <=> call_df.cols = <<>>)

AmountOf(row) == row["Estimated Funding Amount"]

\* whether a raw amount cell is numeric: a number, or text that reads as a number
NumericInput(c) == IsNum(c) \/ (IsStr(c) /\ IsNumeric(c.s))

\* the number a numeric raw amount cell stands for
NumberOf(c) == IF IsNum(c) THEN c.n ELSE ParseNumeric(c.s)

\* C12 as stated: after transform_data every 'Estimated Funding Amount' cell is a
\* non-null, non-negative number: a numeric input is kept, and a non-numeric or null
\* input (the text 'N/A') has become 0.
C12_AmountNonNegative_AsStated ==
  ReturnedRows =>
    LET kept == KeptRows
    IN \A i \in 1..Len(kept) :
         LET out == AmountOf(call_ret.value.rows[i])
         IN /\ IsNum(out) /\ out.n >= 0
            /\ out.n = IF NumericInput(AmountOf(kept[i])) THEN NumberOf(AmountOf(kept[i])) ELSE 0

\* C12 amended: after transform_data every 'Estimated Funding Amount' cell is a
\* non-null number: a numeric input is kept, a negative one included, and a
\* non-numeric or null input has become 0; the cell is non-negative whenever the
\* input was not a negative number.
C12_AmountNumeric ==
  ReturnedRows =>
    LET kept == KeptRows
    IN \A i \in 1..Len(kept) :
         LET out == AmountOf(call_ret.value.rows[i])
         IN /\ IsNum(out)
            /\ out.n = IF NumericInput(AmountOf(kept[i])) THEN NumberOf(AmountOf(kept[i])) ELSE 0
            /\ ~(NumericInput(AmountOf(kept[i])) /\ NumberOf(AmountOf(kept[i])) < 0) => out.n >= 0

\* C12 witness: 'N/A' has become 0 and -3 is kept
C12_Witness ==
  /\ ReturnedRows
  /\ Len(KeptRows) = 2
  /\ AmountOf(KeptRows[1]) = Str("N/A") /\ AmountOf(call_ret.value.rows[1]) = Num(0)
  /\ AmountOf(KeptRows[2]) = Num(-3) /\ AmountOf(call_ret.value.rows[2]) = Num(-3)

BundleReturned == call_ret # NotCalled /\ ~call_ret.raised

\* whether a cell is text that holds the phrase, given in lower case, letter case ignored
HasPhrase(c, phrase) ==
  IsStr(c) /\ \E i \in 1..(Len(c.s) - Len(phrase) + 1) :
                 Lower(SubSeq(c.s, i, i + Len(phrase) - 1)) = phrase

\* the rows of the table handed to calculate_metrics that are ready to trade
ReadyRows == {i \in DOMAIN call_df.rows : HasPhrase(call_df.rows[i]["Status Detail"], "ready to trade")}

\* C13: in the bundle calculate_metrics returns, completed_count is the number of rows
\* whose 'Status Detail' contains 'Ready to Trade' case-insensitively, and
\* completion_rate is 100 * completed_count / total_requests rounded to one decimal
\* place (here in tenths: the nearest tenth), and 0 when total_requests is 0.
C13_CompletionRate ==
  BundleReturned =>
    LET m == call_ret.value
        ready == Cardinality(ReadyRows)
        diff == m.completion_rate * NRows(call_df) - 1000 * ready
    IN /\ m.completed_count = ready
       /\ m.total_requests = NRows(call_df)
       /\ m.total_requests = 0 => m.completion_rate = 0
       /\ m.total_requests > 0 =>
            2 * (IF diff < 0 THEN 0 - diff ELSE diff) <= NRows(call_df)

\* C13 witness: two of three rows are ready to trade, in different letter case, and
\* the rate is 66.7
C13_Witness ==
  /\ BundleReturned
  /\ NRows(call_df) = 3
  /\ Cardinality(ReadyRows) = 2
  /\ \E i \in ReadyRows : call_df.rows[i]["Status Detail"] = Str("ready to trade")
  /\ call_ret.value.completed_count = 2
  /\ call_ret.value.completion_rate = 667

FundingDate(i) == call_df.rows[i]["Estimated Funding Date"]

\* the rows of the table handed to calculate_metrics with a funding date today or later
FutureRows == {i \in DOMAIN call_df.rows : IsDate(FundingDate(i)) /\ FundingDate(i).d >= Today(now)}

\* those of them dated before today + 30 days
WindowRows == {i \in FutureRows : FundingDate(i).d < Today(now) + 30}

HasUpcoming == BundleReturned /\ HasCol(call_df, "Estimated Funding Date")

\* C14: in upcoming_funding, total_count is the number of rows with a non-null funding
\* date >= today, next_30days_count the number of those dated before today + 30 days,
\* next_30days_count <= total_count, rows with a null funding date are in neither, and
\* both are 0 when no row has a funding date >= today.
C14_UpcomingCounts ==
  HasUpcoming =>
    LET u == call_ret.value.upcoming_funding
    IN /\ u.total_count = Cardinality(FutureRows)
       /\ u.next_30days_count = Cardinality(WindowRows)
       /\ u.next_30days_count <= u.total_count
       /\ FutureRows = {} => u.total_count = 0 /\ u.next_30days_count = 0

\* C14 witness: of three rows, one without a funding date, one dated today and one
\* dated today + 30 days, two are counted and one of them in the window
C14_Witness ==
  /\ HasUpcoming
  /\ NRows(call_df) = 3
  /\ \E i \in DOMAIN call_df.rows : IsNull(FundingDate(i))
  /\ \E i \in DOMAIN call_df.rows : FundingDate(i) = Date(Today(now))
  /\ \E i \in DOMAIN call_df.rows : FundingDate(i) = Date(Today(now) + 30)
  /\ call_ret.value.upcoming_funding.total_count = 2
  /\ call_ret.value.upcoming_funding.next_30days_count = 1

\* the per-date counts of the bundle: date text -> count
ByDate == call_ret.value.upcoming_funding.by_date

\* C15: by_date holds, for each calendar date, the count of rows whose funding date
\* falls in the 30-day forward window: it has no entry for a date on or after
\* today + 30 days, every date of the window has its count, and the counts sum to
\* next_30days_count.
C15_ByDateWithinWindow ==
  HasUpcoming =>
    /\ \A k \in DOMAIN ByDate :
         \E i \in WindowRows :
           /\ ByDate[k].key = DateToStr(FundingDate(i).d)
           /\ ByDate[k].n = Cardinality({j \in WindowRows : FundingDate(j) = FundingDate(i)})
    /\ \A i \in WindowRows : \E k \in DOMAIN ByDate : ByDate[k].key = DateToStr(FundingDate(i).d)
    /\ SumCounts(ByDate) = call_ret.value.upcoming_funding.next_30days_count

\* C15 amended: by_date holds, for each calendar date, the count of rows whose funding
\* date is that date and is today or later, the dates after the 30-day window
\* included: every such date has its count, there is no other entry, and the counts
\* sum to total_count.
C15_ByDateAllFuture ==
  HasUpcoming =>
    /\ \A k \in DOMAIN ByDate :
         \E i \in FutureRows :
           /\ ByDate[k].key = DateToStr(FundingDate(i).d)
           /\ ByDate[k].n = Cardinality({j \in FutureRows : FundingDate(j) = FundingDate(i)})
    /\ \A i \in FutureRows : \E k \in DOMAIN ByDate : ByDate[k].key = DateToStr(FundingDate(i).d)
    /\ SumCounts(ByDate) = call_ret.value.upcoming_funding.total_count

\* C15 witness: two rows dated today + 30 days and one dated today; by_date counts the
\* two under their date, which is outside the window
C15_Witness ==
  /\ HasUpcoming
  /\ Cardinality(FutureRows) = 3
  /\ Cardinality(WindowRows) = 1
  /\ \E k \in DOMAIN ByDate : ByDate[k] = [key |-> DateToStr(Today(now) + 30), n |-> 2]

\* the top-level keys the specification lists for the metrics export
ListedKeys ==
  {"total_plans", "total_requests", "status_counts", "status_percentages",
   "status_detail_counts", "status_detail_percentages", "completed_count",
   "completion_rate", "upcoming_funding", "mapping_from_mutual_fund", "by_dimension"}

\* C16 as stated: every bundle calculate_metrics returns has the same top-level keys,
\* all eleven of them, also when the funding-date or the mapping column is absent
\* from the cleaned table.
C16_SameKeys_AsStated == BundleReturned => DOMAIN call_ret.value = ListedKeys

\* C16 amended: every bundle has the nine keys total_plans ... completion_rate and
\* by_dimension; it has upcoming_funding exactly when the cleaned table has the
\* funding-date column and mapping_from_mutual_fund exactly when it has the mapping
\* column.
C16_KeysFollowColumns ==
  BundleReturned =>
    /\ ListedKeys \ {"upcoming_funding", "mapping_from_mutual_fund"} \subseteq DOMAIN call_ret.value
    /\ DOMAIN call_ret.value \subseteq ListedKeys
    /\ "upcoming_funding" \in DOMAIN call_ret.value <=> HasCol(call_df, "Estimated Funding Date")
    /\ "mapping_from_mutual_fund" \in DOMAIN call_ret.value
         <=> HasCol(call_df, "Mapping from Mutual Fund?")

\* C16 witness: a bundle for a table with rows, with the mapping column and without the
\* funding-date column, has mapping_from_mutual_fund and lacks upcoming_funding
C16_Witness ==
  /\ BundleReturned
  /\ NRows(call_df) > 0
  /\ HasCol(call_df, "Mapping from Mutual Fund?")
  /\ ~HasCol(call_df, "Estimated Funding Date")
  /\ "mapping_from_mutual_fund" \in DOMAIN call_ret.value
  /\ "upcoming_funding" \notin DOMAIN call_ret.value

\* C18: calculate_metrics never raises on an empty cleaned table, the empty table that
\* transform_data returns when no row matches included: it returns a bundle with
\* total_requests = 0 and 0-valued or empty percentages and rates.
C18_EmptyTableNeverRaises ==
  (call_ret # NotCalled /\ NRows(call_df) = 0) =>
    /\ ~call_ret.raised
    /\ call_ret.value.total_requests = 0
    /\ call_ret.value.completion_rate = 0
    /\ call_ret.value.status_percentages = <<>>
    /\ call_ret.value.status_detail_percentages = <<>>

\* the values of a dimension in the table handed to calculate_metrics, the rows that
\* have a value, and the row where a value is met first
DimValues(dim) == {call_df.rows[i][dim] : i \in DOMAIN call_df.rows}
DimRowsOf(dim, v) == {i \in DOMAIN call_df.rows : call_df.rows[i][dim] = v}
FirstRowOf(dim, v) == CHOOSE i \in DimRowsOf(dim, v) : \A j \in DimRowsOf(dim, v) : i <= j

\* the entries by_dimension holds for a dimension, and the values they retain
Retained(dim) == call_ret.value.by_dimension[dim]
RetainedValues(dim) == {Retained(dim)[k].key : k \in DOMAIN Retained(dim)}

FailedStage(r) == stages[r][Len(stages[r])]

\* the error kind the specification names for each stage
NamedErrorKind ==
  [s \in SeqToSet(StageOrder) |->
     CASE s = "Extract" -> "ExtractionError"
       [] s = "Transform" -> "TransformationError"
       [] s = "Calculate" -> "CalculationError"
       [] OTHER -> "PersistenceError"]

\* the message of each stage's own logger.error (lines 40, 118, 201, 251)
StageMessage ==
  [s \in SeqToSet(StageOrder) |->
     CASE s = "Extract" -> "Error extracting data"
       [] s = "Transform" -> "Error transforming data"
       [] s = "Calculate" -> "Error calculating metrics"
       [] OTHER -> "Error loading data"]

\* what the failed stage itself raised
RaisedByStage(r) ==
  IF FailedStage(r) = "Load" THEN Raised("OSError") ELSE StageFailure(r)

\* the ERROR records a raised run has logged for the error it hands to its caller
LoggedAtError(r) ==
  \E i \in DOMAIN error_log[r] :
    /\ error_log[r][i].level = "ERROR"
    /\ error_log[r][i].error = result[r].error

HasExited(r) == exit_status[r] # NoValue

\* what main printed when the run raised, and what argparse wrote for a bad command line
FailureLine(r) == "ETL failed: " \o result[r].error
UsageError(r) == "error: " \o parse_args(argv[r].args).error

\* an error message has been printed, on either stream
ErrorPrinted(r) ==
  \/ pc[r] = "raised" /\ FailureLine(r) \in SeqToSet(stdout[r])
  \/ parse_args(argv[r].args).raised /\ UsageError(r) \in SeqToSet(stderr[r])

\* the four locations, each printed on a line of its own
AllFourPrinted(r) ==
  \A k \in SeqToSet(PathKeys) :
    ("  " \o k \o ": " \o result[r].value[k]) \in SeqToSet(stdout[r])

NoDataReported(r) == stdout[r] = <<"ETL completed but no data was processed.">>

BothCalled == call_ret # NotCalled /\ dashboard_ret # NotCalled

\* transform_data yielded a non-empty table
YieldsTable == ~call_ret.raised /\ NRows(call_ret.value) > 0

\* the dashboard yielded a result
YieldsResult == dashboard_ret.value # None

NoLoadInProgress == \A r \in Runs : pc[r] \notin {"load_open", "load_write"}

\* both latest artifacts are in the output directory
LatestPairExists == {latest_csv_path, latest_metrics_path} \subseteq DOMAIN files

\* the latest pair is what run r handed to load_data: its table and the metrics of that table
PairProducedBy(r) ==
  /\ EnteredLoad(r)
  /\ files[latest_csv_path] = to_csvs[transformed_data[r]]
  /\ files[latest_metrics_path] = json_dumps[metrics[r]]

=============================================================================
